---- MODULE Spec2Model ----
(***************************************************************************)
(* fsm_viz: recovery of finite-state machines from SystemVerilog modules.  *)
(* The extraction core is a set of pure functions; each specification      *)
(* below draws an input from a bounded set and applies the functions of    *)
(* one pipeline stage to it.                                               *)
(*                                                                         *)
(* Text is modelled as a sequence of tokens and every regular expression   *)
(* of the source as a scan over tokens.  Optional fields of the TypeScript *)
(* records are modelled by a falsy value of the same kind: FALSE for an    *)
(* absent flag, the empty sequence for an absent string or list, NoName    *)
(* for an absent name.                                                     *)
(***************************************************************************)
EXTENDS Integers, Sequences, FiniteSets, TLC

VARIABLES
    pc,        \* position of the run: "input", then the stage that has run
    fsm,       \* the FSM record handed to a validator or a generator
    warnings,  \* FSMWarning[] returned by the validator that ran last
    text,      \* the lines returned by generateMermaid
    opts,      \* MermaidOptions of the run
    src,       \* the parsed input of an extraction run
    out,       \* the result of an extraction run
    matcherIn, \* StateRegister[] handed to matchStateRegisterPairs
    matcherOut,     \* the pairs returned by matchStateRegisterPairs
    parserInstance, \* tree-sitter-init.ts: the cached parser, or NoParser
    initPromise,    \* tree-sitter-init.ts: the promise of the doInit run in progress
    runs,           \* the doInit runs started so far, in order
    calls,          \* the initParser / parseSystemVerilog calls made so far, in order
    resets,         \* the number of resetParser calls so far
    currentAnalysis, \* fsm-viz.ts: the analysis of the last extraction, or NoAnalysis
    selectedFSM,    \* fsm-viz.ts: the FSM on display, NoSelection or Undefined
    dom             \* fsm-viz.ts: the page, and the click handler of extractBtn in progress

\* the state of the register matcher
registerVars == <<matcherIn, matcherOut>>

\* the state outside the extraction pipeline, the validators and the generator
\* the state of the parser module
parserVars == <<parserInstance, initPromise, runs, calls, resets>>

\* the state of the web front end
webVars == <<currentAnalysis, selectedFSM, dom>>

otherVars == <<registerVars, parserVars, webVars>>

vars == <<pc, fsm, warnings, text, opts, src, out, otherVars>>

RegistersIdle == matcherIn = <<>> /\ matcherOut = <<>>

\* nothing outside the extraction pipeline has run
NoParser == 0
NoPromise == 0

ParserIdle ==
    /\ parserInstance = NoParser
    /\ initPromise = NoPromise
    /\ runs = <<>>
    /\ calls = <<>>
    /\ resets = 0

\* an analysis is [id, fsms]: the number of the extraction that returned it
\* and the length of its fsms; an FSM is <<id, i>>, the i-th of analysis id
NoAnalysis == [id |-> 0, fsms |-> 0]
NoSelection == <<0, 0>>
\* the value of fsms[index] for an index outside the array
Undefined == <<0, -1>>

PageLoaded ==
    [source |-> TRUE, disabled |-> FALSE, extracting |-> "no", extractions |-> 0,
     selectorShown |-> FALSE, options |-> 0, value |-> 0, direction |-> "TB",
     outputShown |-> FALSE, rendered |-> NoSelection, stats |-> NoSelection,
     renders |-> 0]

WebIdle ==
    /\ currentAnalysis = NoAnalysis
    /\ selectedFSM = NoSelection
    /\ dom = PageLoaded

OthersIdle == RegistersIdle /\ ParserIdle /\ WebIdle

\* ------------------------------------------------------------------ helpers

NoName == "<none>"

Range(s) == {s[i] : i \in 1..Len(s)}

(* A definition or an argument is evaluated where it is used; With gives a  *)
(* value a name once, the way a const of the source does.                  *)
With(v, Body(_)) == CHOOSE r \in {Body(x) : x \in {v}} : TRUE
With2(v, w, Body(_, _)) == CHOOSE r \in {Body(x, y) : x \in {v}, y \in {w}} : TRUE

\* the sequence f as a tuple of its elements
Tuple(f) == SubSeq(f, 1, Len(f))

\* s contains p as a contiguous run (a regular expression with no anchors)
Contains(s, p) == \E i \in 0..(Len(s) - Len(p)) : SubSeq(s, i + 1, i + Len(p)) = p

\* ------------------------------------------------------------------ bounds

\* most transitions of a hand-built FSM given to a validator
MaxTrans == 2
\* the largest number of arms of a case statement
MaxArms == 2
\* the registers of a list handed to matchStateRegisterPairs by hand
MaxRegs == 3
\* most transitions of an FSM given to the graph searches
MaxEdges == 4
\* most states of an enumeration given to detectEncodingType
MaxEnumStates == 3
\* most calls of initParser and parseSystemVerilog in a run of the parser module
MaxCalls == 3
\* most calls of resetParser
MaxResets == 2
\* most clicks on the Extract button that start an extraction
MaxExtracts == 3
\* most FSMs in the analysis an extraction returns
MaxFSMs == 2
\* most calls of renderOutput by the change handlers that await mermaid.render at a time
MaxRenders == 2

\* ------------------------------------------------------------------ names

\* the letters of each state name used below
Letters(name) ==
    CASE name = "IDLE"   -> <<"I", "D", "L", "E">>
      [] name = "RUN"    -> <<"R", "U", "N">>
      [] name = "DONE"   -> <<"D", "O", "N", "E">>
      [] name = "SEND"   -> <<"S", "E", "N", "D">>
      [] name = "STUCK"  -> <<"S", "T", "U", "C", "K">>
      [] name = "ORPHAN" -> <<"O", "R", "P", "H", "A", "N">>
      [] name = "PAUSE"  -> <<"P", "A", "U", "S", "E">>
      [] OTHER           -> <<>>

\* ------------------------------------------------------------------ records

FSMState(name) == [name |-> name, isUnreachable |-> FALSE, isTerminal |-> FALSE,
                   outputs |-> <<>>]

FSMTransition(from, to, condition, rawCondition, isSelfLoop, isImplicit, sourceBlock) ==
    [from |-> from, to |-> to, condition |-> condition, rawCondition |-> rawCondition,
     isSelfLoop |-> isSelfLoop, isImplicit |-> isImplicit, isDefault |-> isImplicit,
     sourceBlock |-> sourceBlock, outputs |-> <<>>]

FSMWarning(type, states) == [type |-> type, states |-> states]

StateNames(f) == [i \in 1..Len(f.states) |-> f.states[i].name]

\* ------------------------------------------------------------------ reachability validator

\* /done/i ... /dead/i, tested on upper-case names
terminalPatterns ==
    << <<"D", "O", "N", "E">>, <<"C", "O", "M", "P", "L", "E", "T", "E">>,
       <<"F", "I", "N", "I", "S", "H">>, <<"E", "N", "D">>, <<"H", "A", "L", "T">>,
       <<"S", "T", "O", "P">>, <<"F", "I", "N", "A", "L">>, <<"E", "R", "R", "O", "R">>,
       <<"F", "A", "I", "L">>, <<"D", "E", "A", "D">> >>

isIntentionalTerminal(stateName) ==
    \E k \in 1..Len(terminalPatterns) : Contains(Letters(stateName), terminalPatterns[k])

findUnreachableStates_NoResetSkip(f) ==
    LET hasIncoming == {f.transitions[i].to :
                          i \in {j \in 1..Len(f.transitions) : ~f.transitions[j].isSelfLoop}}
    IN  SelectSeq(StateNames(f), LAMBDA n : n \notin hasIncoming)

findUnreachableStates(f) ==
    LET hasIncoming == {f.transitions[i].to :
                          i \in {j \in 1..Len(f.transitions) : ~f.transitions[j].isSelfLoop}}
    IN  SelectSeq(StateNames(f), LAMBDA n : n # f.resetState /\ n \notin hasIncoming)

findTerminalStates_CountSelfLoops(f) ==
    LET hasOutgoing == {f.transitions[i].from : i \in 1..Len(f.transitions)}
    IN  SelectSeq(StateNames(f), LAMBDA n : n \notin hasOutgoing)

findTerminalStates(f) ==
    LET hasOutgoing == {f.transitions[i].from :
                          i \in {j \in 1..Len(f.transitions) : ~f.transitions[j].isSelfLoop}}
    IN  SelectSeq(StateNames(f), LAMBDA n : n \notin hasOutgoing)

\* the warnings validateReachability returns
reachabilityWarnings(f) ==
    LET unreachable   == findUnreachableStates(f)
        terminal      == findTerminalStates(f)
        unintentional == SelectSeq(terminal, LAMBDA n : ~isIntentionalTerminal(n))
    IN  (IF Len(unreachable) > 0
           THEN <<FSMWarning("unreachable_state", unreachable)>> ELSE <<>>)
        \o
        (IF Len(terminal) > 0 /\ Len(unintentional) > 0
           THEN <<FSMWarning("terminal_state", unintentional)>> ELSE <<>>)

reachabilityMarked_PrunesDangling(f) ==
    LET unreachable == Range(findUnreachableStates(f))
        terminal    == Range(findTerminalStates(f))
    IN  [f EXCEPT !.states =
           [i \in 1..Len(f.states) |->
              [f.states[i] EXCEPT
                 !.isUnreachable = @ \/ f.states[i].name \in unreachable,
                 !.isTerminal    = @ \/ f.states[i].name \in terminal]],
                  !.transitions =
           SelectSeq(f.transitions, LAMBDA t : t.to \in Range(StateNames(f)))]

\* the FSM as validateReachability leaves it: annotation flags set in place
reachabilityMarked(f) ==
    LET unreachable == Range(findUnreachableStates(f))
        terminal    == Range(findTerminalStates(f))
    IN  [f EXCEPT !.states =
           [i \in 1..Len(f.states) |->
              [f.states[i] EXCEPT
                 !.isUnreachable = @ \/ f.states[i].name \in unreachable,
                 !.isTerminal    = @ \/ f.states[i].name \in terminal]]]

\* ------------------------------------------------------------------ source text

(* A statement of the parsed module is a record:                           *)
(*   [kind |-> "assign", target, op, value]           target op value ;    *)
(*   [kind |-> "if", cond, then, thenBlock, hasElse, else, elseBlock]      *)
(*   [kind |-> "case", keyword, expr, items]          case (expr) ... endcase *)
(* A branch is a list of statements, wrapped in begin/end when its Block   *)
(* flag is set.  An else branch that is one if statement without begin/end *)
(* is an else-if.  The text of a node is the token sequence of its span;   *)
(* `==` is the two tokens "=", "=" because the assignment pattern reads it *)
(* character by character.  The identifiers used contain none of the       *)
(* keywords if, else, begin, end as a substring.                           *)

Assign(target, op, value) == [kind |-> "assign", target |-> target, op |-> op, value |-> value]
If(cond, then, thenBlock) ==
    [kind |-> "if", cond |-> cond, then |-> then, thenBlock |-> thenBlock,
     hasElse |-> FALSE, else |-> <<>>, elseBlock |-> FALSE]
IfElse(cond, then, thenBlock, else, elseBlock) ==
    [kind |-> "if", cond |-> cond, then |-> then, thenBlock |-> thenBlock,
     hasElse |-> TRUE, else |-> else, elseBlock |-> elseBlock]
CaseItem(labels, body, block) == [labels |-> labels, body |-> body, block |-> block]
Case(expr, items) == [kind |-> "case", keyword |-> "case", expr |-> expr, items |-> items]
Casez(expr, items) == [Case(expr, items) EXCEPT !.keyword = "casez"]

RECURSIVE Flatten(_)
Flatten(ss) ==
    With(ss, LAMBDA s : IF s = <<>> THEN <<>> ELSE Head(s) \o Flatten(Tail(s)))

RECURSIVE JoinWith(_, _)
JoinWith(ss, sep) ==
    With(ss, LAMBDA s :
        IF s = <<>> THEN <<>>
        ELSE IF Len(s) = 1 THEN <<s[1]>> ELSE <<s[1], sep>> \o JoinWith(Tail(s), sep))

RECURSIVE getNodeText(_)
BranchText(stmts, block) ==
    With(stmts, LAMBDA s :
        IF block THEN <<"begin">> \o Flatten([i \in 1..Len(s) |-> getNodeText(s[i])]) \o <<"end">>
        ELSE IF s = <<>> THEN <<";">>
        ELSE Flatten([i \in 1..Len(s) |-> getNodeText(s[i])]))

ItemText(item) ==
    With(item, LAMBDA it : JoinWith(it.labels, ",") \o <<":">> \o BranchText(it.body, it.block))

getNodeText(node) ==
    With(node, LAMBDA n :
        CASE n.kind = "assign" -> <<n.target, n.op>> \o n.value \o <<";">>
          [] n.kind = "if" ->
                <<"if", "(">> \o n.cond \o <<")">> \o BranchText(n.then, n.thenBlock)
                \o (IF n.hasElse THEN <<"else">> \o BranchText(n.else, n.elseBlock) ELSE <<>>)
          [] n.kind = "case" ->
                <<n.keyword, "(", n.expr, ")">>
                \o Flatten([i \in 1..Len(n.items) |-> ItemText(n.items[i])])
                \o <<"endcase">>)

\* an else branch that continues the chain: else if (...)
IsElseIf(node) ==
    node.hasElse /\ ~node.elseBlock /\ Len(node.else) = 1 /\ node.else[1].kind = "if"

(* findNodesOfType(root, 'conditional_statement') over a list of statements, *)
(* in walkTree's pre-order.  The grammar either nests an else-if as a        *)
(* conditional_statement of its own (flat = FALSE) or keeps the whole chain  *)
(* in one node (flat = TRUE); the parser decides, so both are inputs.        *)
RECURSIVE conditionalNodes(_, _)
RECURSIVE conditionalNodesBelow(_, _)
conditionalNodesBelow(node, flat) ==
    With(node, LAMBDA n :
        conditionalNodes(n.then, flat)
        \o (IF ~n.hasElse THEN <<>>
            ELSE IF flat /\ IsElseIf(n) THEN conditionalNodesBelow(n.else[1], flat)
            ELSE conditionalNodes(n.else, flat)))
conditionalNodes(stmts, flat) ==
    With(stmts, LAMBDA s :
        IF s = <<>> THEN <<>>
        ELSE (IF Head(s).kind = "if"
                THEN <<Head(s)>> \o conditionalNodesBelow(Head(s), flat)
                ELSE <<>>)
             \o conditionalNodes(Tail(s), flat))

\* ------------------------------------------------------------------ token patterns

Punct == {"(", ")", "=", "<=", ";", ":", ",", "!", "~", "&&", "||", "@", "*", "1'b0", "1'b1",
          "3'b1??"}

\* \w+
IsWord(t) == t \notin Punct

\* index of the first tok at or after position from, 0 when there is none
FirstIndex(t, from, tok) ==
    With({k \in from..Len(t) : t[k] = tok}, LAMBDA hits :
        IF hits = {} THEN 0 ELSE CHOOSE k \in hits : \A h \in hits : k <= h)

\* if\s*\([^)]+\) starting at i: the index of the closing parenthesis, or 0
IfHeaderEnd(t, i) ==
    IF i + 3 <= Len(t) /\ t[i] = "if" /\ t[i + 1] = "(" /\ t[i + 2] # ")"
    THEN FirstIndex(t, i + 3, ")") ELSE 0

\* (\w+)\s*(<=|=)\s*([^;]+); applied with exec until it fails
RECURSIVE extractAssignmentsFromText(_)
extractAssignmentsFromText(txt) ==
    With(txt, LAMBDA t :
      With({i \in 1..(Len(t) - 3) :
              /\ IsWord(t[i]) /\ t[i + 1] \in {"=", "<="} /\ t[i + 2] # ";"
              /\ FirstIndex(t, i + 3, ";") # 0}, LAMBDA starts :
        IF starts = {} THEN <<>>
        ELSE With(CHOOSE x \in starts : \A y \in starts : x <= y, LAMBDA i :
               With(FirstIndex(t, i + 3, ";"), LAMBDA k :
                 <<[target |-> t[i], value |-> SubSeq(t, i + 2, k - 1), isBlocking |-> t[i + 1] = "="]>>
                 \o extractAssignmentsFromText(SubSeq(t, k + 1, Len(t)))))))

\* the end of a match of one pattern of removeIfBlocks starting at i, or 0
MatchEnd(kind, t, i) ==
    CASE kind = "ifBegin" ->    \* if\s*\([^)]+\)\s*begin[\s\S]*?end
            With(IfHeaderEnd(t, i), LAMBDA k :
                IF k > 0 /\ k + 1 <= Len(t) /\ t[k + 1] = "begin"
                THEN FirstIndex(t, k + 2, "end") ELSE 0)
      [] kind = "ifSemi" ->     \* if\s*\([^)]+\)\s*[^;]+;
            With(IfHeaderEnd(t, i), LAMBDA k :
                IF k > 0 THEN FirstIndex(t, k + 1, ";") ELSE 0)
      [] kind = "elseBegin" ->  \* else\s*begin[\s\S]*?end
            IF i + 1 <= Len(t) /\ t[i] = "else" /\ t[i + 1] = "begin"
            THEN FirstIndex(t, i + 2, "end") ELSE 0
      [] kind = "elseSemi" ->   \* else\s*[^;]+;
            IF t[i] = "else" THEN FirstIndex(t, i + 1, ";") ELSE 0

\* String.replace(pattern /g, ''): matches taken left to right, not overlapping
RECURSIVE RemoveFrom(_, _, _)
RemoveFrom(kind, txt, from) ==
    With2(txt, from, LAMBDA t, i :
      With({j \in i..Len(t) : MatchEnd(kind, t, j) > 0}, LAMBDA starts :
        IF starts = {} THEN SubSeq(t, i, Len(t))
        ELSE With(CHOOSE j \in starts : \A k \in starts : j <= k, LAMBDA m :
                 SubSeq(t, i, m - 1) \o RemoveFrom(kind, t, MatchEnd(kind, t, m) + 1))))

removeIfBlocks_KeepPlainIf(t) ==
    RemoveFrom("elseSemi", RemoveFrom("elseBegin", RemoveFrom("ifBegin", t, 1), 1), 1)

removeIfBlocks(t) ==
    RemoveFrom("elseSemi",
      RemoveFrom("elseBegin",
        RemoveFrom("ifSemi",
          RemoveFrom("ifBegin", t, 1), 1), 1), 1)

\* ------------------------------------------------------------------ identifiers

\* the underscore-separated words of the identifiers used as variables
Words(name) ==
    CASE name = "state"         -> <<"state">>
      [] name = "next_state"    -> <<"next", "state">>
      [] name = "current_state" -> <<"current", "state">>
      [] name = "tx_state"      -> <<"tx", "state">>
      [] name = "tx_next_state" -> <<"tx", "next", "state">>
      [] name = "rx_state"      -> <<"rx", "state">>
      [] name = "rx_next_state" -> <<"rx", "next", "state">>
      [] name = "tx_state_next" -> <<"tx", "state", "next">>
      [] name = "rx_state_next" -> <<"rx", "state", "next">>
      [] name = "state_q"       -> <<"state", "q">>
      [] name = "state_d"       -> <<"state", "d">>
      [] name = "cs"            -> <<"cs">>
      [] name = "ns"            -> <<"ns">>
      [] name = "state_t"       -> <<"state", "t">>
      [] name = "tx_state_t"    -> <<"tx", "state", "t">>
      [] name = "rx_state_t"    -> <<"rx", "state", "t">>
      [] name = "mode_t"        -> <<"mode", "t">>
      [] OTHER                  -> <<name>>

\* name.toLowerCase().includes('state')
IncludesState(name) == "state" \in Range(Words(name))

\* the identifiers that match [A-Z_][A-Z0-9_]*
UpperIdents ==
    {"IDLE", "RUN", "DONE", "SEND", "STUCK", "ORPHAN", "PAUSE", "DONE_STATE",
     "TX_IDLE", "TX_START", "TX_DATA", "TX_STOP", "RX_IDLE", "RX_START", "RX_DATA", "RX_STOP"}

\* a suffix of the words of a name
EndsWith(name, suffix) ==
    LET w == Words(name)
    IN  Len(w) >= Len(suffix) /\ SubSeq(w, Len(w) - Len(suffix) + 1, Len(w)) = suffix

\* the words of a name without a suffix of k words
Prefix(name, k) == SubSeq(Words(name), 1, Len(Words(name)) - k)

\* text.includes(name), on the word boundaries of the identifiers used
NameIncludes(tok, part) ==
    LET w == Words(tok)
        q == Words(part)
    IN  \E i \in 1..(Len(w) - Len(q) + 1) : SubSeq(w, i, i + Len(q) - 1) = q

\* STATE_VAR_PATTERNS
isStateVarName(name) ==
    \/ Words(name) \in {<<"state">>, <<"current", "state">>, <<"next", "state">>, <<"cs">>,
                        <<"ns">>, <<"ps">>, <<"cstate">>, <<"nstate">>, <<"fsm", "state">>,
                        <<"fsm", "cs">>, <<"fsm", "ns">>}
    \/ EndsWith(name, <<"state", "r">>)
    \/ EndsWith(name, <<"state", "q">>)
    \/ EndsWith(name, <<"state", "d">>)

\* NEXT_STATE_PATTERNS
isNextStateVarName(name) ==
    \/ Words(name) \in {<<"next", "state">>, <<"ns">>, <<"nstate">>, <<"fsm", "ns">>}
    \/ EndsWith(name, <<"state", "d">>)
    \/ EndsWith(name, <<"state", "next">>)
    \/ (Len(Words(name)) >= 2 /\ EndsWith(name, <<"next">>))
    \/ (Len(Words(name)) >= 2 /\ EndsWith(name, <<"n">>))

\* STATE_VAR_EXCLUSIONS
isExcludedStateVar(name) ==
    \E part \in {<<"state", "machine", "enable">>, <<"state", "counter">>, <<"state", "valid">>,
                 <<"state", "error">>, <<"state", "flag">>, <<"state", "bits">>,
                 <<"state", "width">>, <<"num", "states">>} :
        \E i \in 1..(Len(Words(name)) - Len(part) + 1) :
            SubSeq(Words(name), i, i + Len(part) - 1) = part

\* ------------------------------------------------------------------ register detector

StateRegister(varName, typeName, isNextState) ==
    [varName |-> varName, typeName |-> typeName, isNextState |-> isNextState]

NoRegister == StateRegister(NoName, NoName, FALSE)

\* the text of a declaration: type name1, name2;
DeclText(decl) == <<decl.type>> \o JoinWith(decl.vars, ",") \o <<";">>

extractStateRegistersFromDecl(decl, enumTypeNames) ==
    With(DeclText(decl), LAMBDA t :
      With(SelectSeq(enumTypeNames, LAMBDA e :
                        \E i \in 1..Len(t) : IsWord(t[i]) /\ NameIncludes(t[i], e)), LAMBDA found :
        LET typeName == IF found = <<>> THEN NoName ELSE found[1]
            kept     == SelectSeq(decl.vars, LAMBDA v :
                            ~isExcludedStateVar(v) /\ (typeName # NoName \/ isStateVarName(v)))
        IN  Tuple([i \in 1..Len(kept) |->
                     StateRegister(kept[i], typeName, isNextStateVarName(kept[i]))])))

detectStateRegisters(root, enumDefs) ==
    LET enumTypeNames == Tuple([i \in 1..Len(enumDefs) |-> enumDefs[i].typeName])
    IN  Flatten([i \in 1..Len(root.decls) |->
                    extractStateRegistersFromDecl(root.decls[i], enumTypeNames)])

areMatchingStateNames(stateName, nextStateName) ==
    \/ /\ EndsWith(stateName, <<"state">>) /\ EndsWith(nextStateName, <<"next", "state">>)
       /\ Prefix(stateName, 1) = Prefix(nextStateName, 2)
    \/ /\ EndsWith(stateName, <<"cs">>) /\ EndsWith(nextStateName, <<"ns">>)
       /\ Prefix(stateName, 1) = Prefix(nextStateName, 1)
    \/ /\ EndsWith(stateName, <<"cstate">>) /\ EndsWith(nextStateName, <<"nstate">>)
       /\ Prefix(stateName, 1) = Prefix(nextStateName, 1)
    \/ /\ Len(Words(stateName)) >= 2 /\ EndsWith(stateName, <<"q">>)
       /\ Len(Words(nextStateName)) >= 2 /\ EndsWith(nextStateName, <<"d">>)
       /\ Prefix(stateName, 1) = Prefix(nextStateName, 1)
    \/ /\ EndsWith(stateName, <<"state">>) /\ EndsWith(nextStateName, <<"state", "next">>)
       /\ Prefix(stateName, 1) = Prefix(nextStateName, 2)
    \/ (Words(stateName) = <<"current", "state">> /\ Words(nextStateName) = <<"next", "state">>)
    \/ (Words(stateName) = <<"ps">> /\ Words(nextStateName) = <<"ns">>)

\* the first element of a sequence of indices that satisfies Test, or 0
FirstOf(idx, Test(_)) ==
    LET hits == SelectSeq(idx, Test) IN IF hits = <<>> THEN 0 ELSE hits[1]

\* the loop over stateRegs of one type group; used is the set of indices taken
RECURSIVE PairStateRegs(_, _, _, _)
PairStateRegs(registers, stateRegs, nextStateRegs, used) ==
    IF stateRegs = <<>> THEN [pairs |-> <<>>, used |-> used]
    ELSE LET s       == Head(stateRegs)
             byName  == FirstOf(nextStateRegs, LAMBDA n :
                           n \notin used
                           /\ areMatchingStateNames(registers[s].varName, registers[n].varName))
             matched == IF byName # 0 THEN byName
                        ELSE FirstOf(nextStateRegs, LAMBDA n : n \notin used)
         IN  With(PairStateRegs(registers, Tail(stateRegs), nextStateRegs,
                                used \cup {s} \cup (IF matched # 0 THEN {matched} ELSE {})),
                  LAMBDA rest :
                 [pairs |-> <<[state |-> registers[s],
                               nextState |-> IF matched # 0 THEN registers[matched]
                                             ELSE NoRegister]>> \o rest.pairs,
                  used  |-> rest.used])

\* matchStateRegisterPairs without the pass over the orphaned next-state registers
matchStateRegisterPairs_NoOrphans(registers) ==
    LET idx      == [i \in 1..Len(registers) |-> i]
        firsts   == SelectSeq(idx, LAMBDA i :
                        \A j \in 1..(i - 1) : registers[j].typeName # registers[i].typeName)
        Group(k) ==
            LET regs          == SelectSeq(idx, LAMBDA i :
                                    registers[i].typeName = registers[k].typeName)
                stateRegs     == SelectSeq(regs, LAMBDA i : ~registers[i].isNextState)
                nextStateRegs == SelectSeq(regs, LAMBDA i : registers[i].isNextState)
            IN  PairStateRegs(registers, stateRegs, nextStateRegs, {}).pairs
    IN  Flatten([g \in 1..Len(firsts) |-> Group(firsts[g])])

matchStateRegisterPairs(registers) ==
    LET idx      == [i \in 1..Len(registers) |-> i]
        firsts   == SelectSeq(idx, LAMBDA i :
                        \A j \in 1..(i - 1) : registers[j].typeName # registers[i].typeName)
        Group(k) ==
            LET regs          == SelectSeq(idx, LAMBDA i :
                                    registers[i].typeName = registers[k].typeName)
                stateRegs     == SelectSeq(regs, LAMBDA i : ~registers[i].isNextState)
                nextStateRegs == SelectSeq(regs, LAMBDA i : registers[i].isNextState)
            IN  With(PairStateRegs(registers, stateRegs, nextStateRegs, {}), LAMBDA paired :
                    LET orphans == SelectSeq(nextStateRegs, LAMBDA i : i \notin paired.used)
                    IN  paired.pairs
                        \o [i \in 1..Len(orphans) |->
                              [state |-> registers[orphans[i]], nextState |-> NoRegister]])
    IN  Flatten([g \in 1..Len(firsts) |-> Group(firsts[g])])

\* the first pair whose state register has the type of the enum, or NoPair
NoPair == [state |-> NoRegister, nextState |-> NoRegister]

findStateRegistersForEnum(enumDef, pairs) ==
    LET hits == SelectSeq(pairs, LAMBDA p : p.state.typeName = enumDef.typeName)
    IN  IF hits = <<>> THEN NoPair ELSE hits[1]

\* ------------------------------------------------------------------ transition builder

isStateAssignment(target, nextStateVarName) ==
    \/ target = nextStateVarName
    \/ IncludesState(target)
    \/ target = "ns"
    \/ target = "next"

\* one replace(/.../g) of simplifyCondition: the match at i, as <<end, kept token>>
SimplifyMatch(kind, t, i) ==
    CASE kind = "parens" ->      \* \((\w+)\) -> $1
            IF i + 2 <= Len(t) /\ t[i] = "(" /\ IsWord(t[i + 1]) /\ t[i + 2] = ")"
            THEN <<i + 2, t[i + 1]>> ELSE <<0, "">>
      [] kind = "notnot" ->      \* !!\s*(\w+) -> $1
            IF i + 2 <= Len(t) /\ t[i] = "!" /\ t[i + 1] = "!" /\ IsWord(t[i + 2])
            THEN <<i + 2, t[i + 2]>> ELSE <<0, "">>
      [] kind = "notparen" ->    \* !\s*\(\s*!\s*(\w+)\s*\) -> $1
            IF /\ i + 4 <= Len(t) /\ t[i] = "!" /\ t[i + 1] = "(" /\ t[i + 2] = "!"
               /\ IsWord(t[i + 3]) /\ t[i + 4] = ")"
            THEN <<i + 4, t[i + 3]>> ELSE <<0, "">>

RECURSIVE SimplifyFrom(_, _, _)
SimplifyFrom(kind, txt, from) ==
    With2(txt, from, LAMBDA t, i :
      With({j \in i..Len(t) : SimplifyMatch(kind, t, j)[1] > 0}, LAMBDA starts :
        IF starts = {} THEN SubSeq(t, i, Len(t))
        ELSE With(CHOOSE j \in starts : \A k \in starts : j <= k, LAMBDA at :
               With(SimplifyMatch(kind, t, at), LAMBDA m :
                 SubSeq(t, i, at - 1) \o <<m[2]>> \o SimplifyFrom(kind, t, m[1] + 1)))))

simplifyCondition(condition) ==
    SimplifyFrom("notparen", SimplifyFrom("notnot", SimplifyFrom("parens", condition, 1), 1), 1)

ConditionalBlock(condition, assignments, elseAssignments, nestedConditions) ==
    [condition |-> condition, assignments |-> assignments,
     elseAssignments |-> elseAssignments, nestedConditions |-> nestedConditions]

\* parseConditionalBlock; the node always holds `if (`, so it never returns null
RECURSIVE parseConditionalBlock(_, _)
parseConditionalBlock(ifNode, flat) ==
    With2(getNodeText(ifNode), Tail(conditionalNodes(<<ifNode>>, flat)), LAMBDA t, nested :
      LET at        == CHOOSE i \in 1..Len(t) :
                          IfHeaderEnd(t, i) > 0 /\ \A j \in 1..(i - 1) : IfHeaderEnd(t, j) = 0
          condition == SubSeq(t, at + 2, IfHeaderEnd(t, at) - 1)
          elseIndex == FirstIndex(t, 1, "else")
          elseIf    == \E i \in 1..(Len(t) - 2) :
                          t[i] = "else" /\ t[i + 1] = "if" /\ t[i + 2] = "("
      IN  ConditionalBlock(
              condition,
              extractAssignmentsFromText(t),
              IF elseIndex > 0 /\ ~elseIf
                THEN extractAssignmentsFromText(SubSeq(t, elseIndex + 1, Len(t))) ELSE <<>>,
              IF elseIndex > 0 /\ elseIf
                THEN Tuple([i \in 1..Len(nested) |-> parseConditionalBlock(nested[i], flat)])
                ELSE <<>>))

\* extractIfBlocks: every conditional_statement node below the case item
extractIfBlocks(item, flat) ==
    With(conditionalNodes(item.body, flat), LAMBDA nodes :
        Tuple([i \in 1..Len(nodes) |-> parseConditionalBlock(nodes[i], flat)]))

extractAssignmentsAndConditions(item, flat) ==
    [assignments |-> extractAssignmentsFromText(removeIfBlocks(ItemText(item))),
     conditions  |-> extractIfBlocks(item, flat)]

\* text.split(sep) on tokens
RECURSIVE Split(_, _)
Split(txt, sep) ==
    With(txt, LAMBDA t :
      With(FirstIndex(t, 1, sep), LAMBDA k :
        IF k = 0 THEN <<t>>
        ELSE <<SubSeq(t, 1, k - 1)>> \o Split(SubSeq(t, k + 1, Len(t)), sep)))

extractCaseLabels(itemText, stateNames) ==
  With(itemText, LAMBDA t :
   With(FirstIndex(t, 1, ":"), LAMBDA colonIndex :
    With(IF colonIndex > 1 THEN Split(SubSeq(t, 1, colonIndex - 1), ",") ELSE <<>>,
         LAMBDA potential :
    LET LabelOf(l) ==
            IF Len(l) = 1 /\ l[1] \in Range(stateNames) THEN <<l[1]>>
            ELSE IF l = <<"default">> THEN <<"default">>
            ELSE LET ups == {i \in 1..Len(l) : l[i] \in UpperIdents}
                 IN  IF ups = {} THEN <<>>
                     ELSE LET f == CHOOSE i \in ups : \A j \in ups : i <= j
                          IN  IF l[f] \in Range(stateNames) THEN <<l[f]>> ELSE <<>>
    IN  Flatten([i \in 1..Len(potential) |-> LabelOf(potential[i])]))))

extractCaseItems(caseStmt, stateNames, flat) ==
    LET PerItem(item) ==
            With2(extractCaseLabels(ItemText(item), stateNames),
                  extractAssignmentsAndConditions(item, flat), LAMBDA labels, ac :
                Tuple([i \in 1..Len(labels) |->
                         [label |-> labels[i], assignments |-> ac.assignments,
                          conditions |-> ac.conditions]]))
    IN  With2(getNodeText(caseStmt),
              SelectSeq(caseStmt.items, LAMBDA it : "default" \in Range(ItemText(it))),
              LAMBDA t, defItems :
          Flatten([i \in 1..Len(caseStmt.items) |-> PerItem(caseStmt.items[i])])
          \o (IF (\E i \in 1..(Len(t) - 1) : t[i] = "default" /\ t[i + 1] = ":")
                  /\ defItems # <<>>
                THEN With(extractAssignmentsAndConditions(defItems[1], flat), LAMBDA ac :
                       <<[label |-> "default", assignments |-> ac.assignments,
                          conditions |-> ac.conditions]>>)
                ELSE <<>>))

\* the transitions of a list of assignments under one guard
StateAssignmentTransitions(assigns, fromState, nextStateVarName, stateNames, raw, guarded, sourceBlock) ==
    With2(SelectSeq(assigns, LAMBDA a :
                    /\ (a.target = nextStateVarName \/ isStateAssignment(a.target, nextStateVarName))
                    /\ Len(a.value) = 1 /\ a.value[1] \in Range(stateNames)),
          IF guarded THEN simplifyCondition(raw) ELSE <<>>, LAMBDA hits, condition :
        Tuple([i \in 1..Len(hits) |->
                 FSMTransition(fromState, hits[i].value[1], condition,
                               IF guarded THEN raw ELSE <<>>,
                               fromState = hits[i].value[1], FALSE, sourceBlock)]))

RECURSIVE processConditionalBlock(_, _, _, _, _, _)
processConditionalBlock(cond, fromState, nextStateVarName, stateNames, sourceBlock, accumulated) ==
    With2(IF accumulated # <<>> THEN accumulated \o <<"&&">> \o cond.condition
          ELSE cond.condition,
          IF accumulated # <<>>
          THEN accumulated \o <<"&&", "!", "(">> \o cond.condition \o <<")">>
          ELSE <<"!", "(">> \o cond.condition \o <<")">>, LAMBDA fullCondition, negated :
        StateAssignmentTransitions(cond.assignments, fromState, nextStateVarName, stateNames,
                                   fullCondition, TRUE, sourceBlock)
        \o StateAssignmentTransitions(cond.elseAssignments, fromState, nextStateVarName,
                                      stateNames, negated, TRUE, sourceBlock)
        \o Flatten([i \in 1..Len(cond.nestedConditions) |->
                      processConditionalBlock(cond.nestedConditions[i], fromState,
                                              nextStateVarName, stateNames, sourceBlock, negated)]))

ImplicitSelfLoop(state, sourceBlock) ==
    FSMTransition(state, state, <<>>, <<>>, TRUE, TRUE, sourceBlock)

processCaseItem(item, nextStateVarName, stateNames, sourceBlock, hasDefaultAssignment) ==
    IF item.label = "default" THEN <<>>
    ELSE With(StateAssignmentTransitions(item.assignments, item.label, nextStateVarName,
                                         stateNames, <<>>, FALSE, sourceBlock)
              \o Flatten([i \in 1..Len(item.conditions) |->
                           processConditionalBlock(item.conditions[i], item.label,
                                                   nextStateVarName, stateNames,
                                                   sourceBlock, <<>>)]), LAMBDA explicit :
             IF explicit = <<>> /\ hasDefaultAssignment
             THEN <<ImplicitSelfLoop(item.label, sourceBlock)>>
             ELSE explicit)

\* new RegExp(`${nextStateVarName}\\s*=\\s*${stateVarName}\\s*;`).test(parentText)
defaultPattern(parentText, stateVarName, nextStateVarName) ==
    \E i \in 1..(Len(parentText) - 3) :
        /\ parentText[i] = nextStateVarName /\ parentText[i + 1] = "="
        /\ parentText[i + 2] = stateVarName /\ parentText[i + 3] = ";"

\* extractTransitions; stateNames is the Set in insertion order
extractTransitions(caseStmt, parentText, stateVarName, nextStateVarName, stateNames, sourceBlock, flat) ==
    With2(defaultPattern(parentText, stateVarName, nextStateVarName),
          extractCaseItems(caseStmt, stateNames, flat), LAMBDA hasDefaultAssignment, caseItems :
      With(Flatten([i \in 1..Len(caseItems) |->
                      processCaseItem(caseItems[i], nextStateVarName, stateNames,
                                      sourceBlock, hasDefaultAssignment)]), LAMBDA fromItems :
        With(SelectSeq(stateNames, LAMBDA n :
                          \A i \in 1..Len(fromItems) : fromItems[i].from # n), LAMBDA unhandled :
          [transitions |->
              fromItems \o (IF hasDefaultAssignment
                              THEN [i \in 1..Len(unhandled) |->
                                      ImplicitSelfLoop(unhandled[i], sourceBlock)]
                              ELSE <<>>),
           hasDefaultAssignment |-> hasDefaultAssignment])))

\* ------------------------------------------------------------------ always analyzer

(* An always_construct node is [keyword, sens, body]: the keyword, the      *)
(* tokens of the event control, and the statements of its begin/end block.  *)
(* Its line is its position in the module, so findAlwaysBlockNode is the    *)
(* lookup root.blocks[line].                                                *)
AlwaysText(node) == <<node.keyword>> \o node.sens \o BranchText(node.body, TRUE)

\* walkTree over statements: the assignment nodes, in pre-order
RECURSIVE assignmentNodes(_)
assignmentNodes(stmts) ==
    With(stmts, LAMBDA s :
        IF s = <<>> THEN <<>>
        ELSE (CASE s[1].kind = "assign" -> <<s[1]>>
                [] s[1].kind = "if"     -> assignmentNodes(s[1].then) \o assignmentNodes(s[1].else)
                [] s[1].kind = "case"   ->
                      Flatten([i \in 1..Len(s[1].items) |-> assignmentNodes(s[1].items[i].body)]))
             \o assignmentNodes(Tail(s)))

\* findNodesOfType(.., 'case_statement') with the text of each node's parent:
\* the enclosing begin/end block, or the statement that holds the branch
RECURSIVE caseNodes(_, _)
caseNodes(stmts, parentText) ==
    With2(stmts, parentText, LAMBDA s, p :
        IF s = <<>> THEN <<>>
        ELSE LET n == s[1]
                 Below(branch, block) ==
                     caseNodes(branch, IF block THEN BranchText(branch, TRUE) ELSE getNodeText(n))
             IN  (CASE n.kind = "assign" -> <<>>
                    [] n.kind = "if"     ->
                          Below(n.then, n.thenBlock) \o Below(n.else, n.elseBlock)
                    [] n.kind = "case"   ->
                          <<[node |-> n, parentText |-> p]>>
                          \o Flatten([i \in 1..Len(n.items) |->
                                        Below(n.items[i].body, n.items[i].block)]))
                 \o caseNodes(Tail(s), p))

detectBlockType(alwaysNode) ==
    IF alwaysNode.keyword = "always_ff" THEN "always_ff"
    ELSE IF alwaysNode.keyword = "always_comb" THEN "always_comb"
    ELSE "always"

\* the targets of the assignments that are state variables, each once
RECURSIVE Distinct(_)
Distinct(names) ==
    With(names, LAMBDA s :
        IF s = <<>> THEN <<>>
        ELSE With(Distinct(SubSeq(s, 1, Len(s) - 1)), LAMBDA front :
                 IF s[Len(s)] \in Range(front) THEN front ELSE Append(front, s[Len(s)])))

findStateAssignments(alwaysNode, stateVarNames) ==
    With(SelectSeq(assignmentNodes(alwaysNode.body), LAMBDA n : n.target \in stateVarNames),
         LAMBDA hits : Distinct([i \in 1..Len(hits) |-> hits[i].target]))

analyzeAlwaysBlocks(root, stateRegisters) ==
    LET stateVarNames == {stateRegisters[i].varName : i \in 1..Len(stateRegisters)}
    IN  Tuple([i \in 1..Len(root.blocks) |->
                 [type |-> detectBlockType(root.blocks[i]), line |-> i,
                  stateAssignments |-> findStateAssignments(root.blocks[i], stateVarNames)]])

\* case[zx]?\s*\(\s*(\w+)\s*\), first match in the text of the case statement
getCaseExpression(caseStmt) ==
    With(getNodeText(caseStmt), LAMBDA t :
        LET hits == {i \in 1..(Len(t) - 3) :
                        /\ t[i] \in {"case", "casez", "casex"} /\ t[i + 1] = "("
                        /\ IsWord(t[i + 2]) /\ t[i + 3] = ")"}
        IN  IF hits = {} THEN NoName
            ELSE t[(CHOOSE i \in hits : \A j \in hits : i <= j) + 2])

findStateCaseStatements(alwaysNode, stateVarNames) ==
    SelectSeq(caseNodes(alwaysNode.body, BranchText(alwaysNode.body, TRUE)),
              LAMBDA c : getCaseExpression(c.node) \in stateVarNames)

Clocked(b) == b.type = "always_ff" \/ b.type = "always"
Combinational(b) == b.type = "always_comb" \/ b.type = "always"
Assigns(b, varName) == varName \in Range(b.stateAssignments)

detectBlockStyle(alwaysBlocks, stateVarName, nextStateVarName) ==
    LET stateAssigners     == SelectSeq(alwaysBlocks, LAMBDA b : Assigns(b, stateVarName))
        nextStateAssigners == IF nextStateVarName # NoName
                              THEN SelectSeq(alwaysBlocks, LAMBDA b : Assigns(b, nextStateVarName))
                              ELSE <<>>
        ffBlocks           == SelectSeq(stateAssigners, Clocked)
        combBlocks         == SelectSeq(nextStateAssigners, Combinational)
    IN  IF /\ Len(stateAssigners) = 1 /\ nextStateAssigners = <<>>
           /\ Clocked(stateAssigners[1])
        THEN "one-block"
        ELSE IF nextStateVarName # NoName /\ ffBlocks # <<>> /\ combBlocks # <<>>
        THEN "two-block"
        ELSE IF Len(stateAssigners) = 1 THEN "one-block" ELSE "two-block"

NoBlock == [type |-> NoName, line |-> 0, stateAssignments |-> <<>>]

getTransitionBlock(alwaysBlocks, stateVarName, nextStateVarName) ==
    LET combBlock == SelectSeq(alwaysBlocks, LAMBDA b :
                        Combinational(b) /\ Assigns(b, nextStateVarName))
        ffBlock   == SelectSeq(alwaysBlocks, LAMBDA b : Clocked(b) /\ Assigns(b, stateVarName))
    IN  IF nextStateVarName # NoName /\ combBlock # <<>> THEN combBlock[1]
        ELSE IF ffBlock # <<>> THEN ffBlock[1]
        ELSE NoBlock

\* ------------------------------------------------------------------ reset state

\* one of the three resetPatterns at position i: the captured word, or NoName
ResetMatch(kind, t, i, stateVarName) ==
    LET close == CASE kind = "negated" ->
                        IF /\ i + 4 <= Len(t) /\ t[i + 1] = "(" /\ t[i + 2] \in {"!", "~"}
                           /\ IsWord(t[i + 3]) /\ t[i + 4] = ")"
                        THEN i + 4 ELSE 0
                   [] kind = "plain" ->
                        IF i + 3 <= Len(t) /\ t[i + 1] = "(" /\ IsWord(t[i + 2]) /\ t[i + 3] = ")"
                        THEN i + 3 ELSE 0
                   [] kind = "any" -> IfHeaderEnd(t, i)
        at    == IF close # 0 /\ close + 1 <= Len(t) /\ t[close + 1] = "begin"
                 THEN close + 2 ELSE close + 1
    IN  IF /\ t[i] = "if" /\ close # 0 /\ at + 2 <= Len(t)
           /\ t[at] = stateVarName /\ t[at + 1] = "<=" /\ IsWord(t[at + 2])
        THEN t[at + 2] ELSE NoName

\* text.match(pattern): the capture of the first match, or NoName
ResetCapture(kind, t, stateVarName) ==
    With({i \in 1..Len(t) : ResetMatch(kind, t, i, stateVarName) # NoName}, LAMBDA hits :
        IF hits = {} THEN NoName
        ELSE ResetMatch(kind, t, CHOOSE i \in hits : \A j \in hits : i <= j, stateVarName))

extractResetState(alwaysNode, stateVarName, stateNames) ==
    With(AlwaysText(alwaysNode), LAMBDA t :
        LET caps == [k \in 1..3 |->
                       ResetCapture(<<"negated", "plain", "any">>[k], t, stateVarName)]
            good == SelectSeq(caps, LAMBDA c : c \in Range(stateNames))
        IN  IF good = <<>> THEN NoName ELSE good[1])

\* ------------------------------------------------------------------ output extractor

FSMOutput(signal, value) == [signal |-> signal, value |-> value]

\* Map.get on a list of entries written by Map.set: the last write, or <<>>
MapGet(entries, key) ==
    LET hits == SelectSeq(entries, LAMBDA e : e.key = key)
    IN  IF hits = <<>> THEN <<>> ELSE hits[Len(hits)].value

parseAssignments(t) == extractAssignmentsFromText(t)

\* a token in which the pattern `end` matches
HasEnd(tok) == tok \in {"end", "endcase"}

\* if\s*\(([^)]+)\)\s*(?:begin\s*)?([\s\S]*?)(?:end|(?=\s*else|\s*$)) at i:
\* <<last token of the match, condition, body>>, or <<0>>
OutputIfMatch(t, i) ==
    With(IfHeaderEnd(t, i), LAMBDA close :
        IF close = 0 THEN <<0>>
        ELSE With(IF close + 1 <= Len(t) /\ t[close + 1] = "begin" THEN close + 2 ELSE close + 1,
                  LAMBDA from :
               With(CHOOSE p \in from..(Len(t) + 1) :
                       /\ (p = Len(t) + 1 \/ HasEnd(t[p]) \/ t[p] = "else")
                       /\ \A q \in from..(p - 1) : ~HasEnd(t[q]) /\ t[q] # "else", LAMBDA stop :
                 <<IF stop <= Len(t) /\ HasEnd(t[stop]) THEN stop ELSE stop - 1,
                   SubSeq(t, i + 2, close - 1), SubSeq(t, from, stop - 1)>>)))

\* matchAll over the block content: the conditional blocks and what is left
RECURSIVE ScanOutputIfs(_, _)
ScanOutputIfs(txt, from) ==
    With2(txt, from, LAMBDA t, i :
      With({j \in i..Len(t) : OutputIfMatch(t, j)[1] # 0}, LAMBDA starts :
        IF starts = {} THEN [conditionalBlocks |-> <<>>, direct |-> SubSeq(t, i, Len(t))]
        ELSE With(CHOOSE j \in starts : \A k \in starts : j <= k, LAMBDA at :
               With(OutputIfMatch(t, at), LAMBDA m :
                 With(ScanOutputIfs(t, m[1] + 1), LAMBDA rest :
                   [conditionalBlocks |->
                        <<[condition |-> m[2], assignments |-> parseAssignments(m[3])]>>
                        \o rest.conditionalBlocks,
                    direct |-> SubSeq(t, i, at - 1) \o rest.direct])))))

parseCaseItemForOutputs(itemText) ==
    With(FirstIndex(itemText, 1, ":"), LAMBDA colonIndex :
      IF colonIndex = 0 THEN [directAssignments |-> <<>>, conditionalBlocks |-> <<>>]
      ELSE With(SubSeq(itemText, colonIndex + 1, Len(itemText)), LAMBDA content :
        LET begin        == FirstIndex(content, 1, "begin")
            ends         == {p \in (begin + 1)..Len(content) : HasEnd(content[p])}
            blockContent == IF begin > 0 /\ ends # {}
                            THEN SubSeq(content, begin + 1,
                                        (CHOOSE p \in ends : \A q \in ends : p <= q) - 1)
                            ELSE content
        IN  With(ScanOutputIfs(blockContent, 1), LAMBDA scan :
                [directAssignments |-> parseAssignments(scan.direct),
                 conditionalBlocks |-> scan.conditionalBlocks])))

\* the label before the colon, when it is or holds a known state
extractStateName(itemText, stateNames) ==
    With(FirstIndex(itemText, 1, ":"), LAMBDA colonIndex :
      With(SubSeq(itemText, 1, colonIndex - 1), LAMBDA label :
        LET held == SelectSeq(stateNames, LAMBDA n : n \in Range(label))
        IN  IF colonIndex = 0 THEN NoName
            ELSE IF Len(label) = 1 /\ label[1] \in Range(stateNames) THEN label[1]
            ELSE IF held # <<>> THEN held[1]
            ELSE NoName))

isStateVar(name, stateVarName, nextStateVarName) ==
    name = stateVarName \/ name = nextStateVarName

extractMealyFromConditional(cond, fromState, stateVarName, nextStateVarName, stateNames) ==
    LET moves == SelectSeq(cond.assignments, LAMBDA a :
                    /\ isStateVar(a.target, stateVarName, nextStateVarName)
                    /\ Len(a.value) = 1 /\ a.value[1] \in Range(stateNames))
        outs  == SelectSeq(cond.assignments, LAMBDA a :
                    ~isStateVar(a.target, stateVarName, nextStateVarName))
    IN  [outputs       |-> Tuple([i \in 1..Len(outs) |->
                                    FSMOutput(outs[i].target, outs[i].value)]),
         transitionKey |-> IF moves = <<>> THEN <<>>
                           ELSE <<fromState, moves[Len(moves)].value[1]>>,
         inputs        |-> SelectSeq(cond.condition, LAMBDA w :
                              IsWord(w) /\ w \notin {"and", "or", "not"})]

\* what one case item adds to the four results
ItemOutputs(item, stateVarName, nextStateVarName, stateNames) ==
  With(ItemText(item), LAMBDA itemText :
   With2(extractStateName(itemText, stateNames), parseCaseItemForOutputs(itemText),
         LAMBDA state, parsed :
    IF state = NoName
    THEN [moore |-> <<>>, mealy |-> <<>>, outputSignals |-> <<>>, inputSignals |-> <<>>]
    ELSE
     With(SelectSeq(parsed.directAssignments, LAMBDA a :
                       ~isStateVar(a.target, stateVarName, nextStateVarName)), LAMBDA direct :
      With2(Tuple([i \in 1..Len(direct) |-> FSMOutput(direct[i].target, direct[i].value)]),
            Tuple([i \in 1..Len(parsed.conditionalBlocks) |->
                     extractMealyFromConditional(parsed.conditionalBlocks[i], state,
                                                 stateVarName, nextStateVarName, stateNames)]),
            LAMBDA moore, mealy :
       With(SelectSeq(mealy, LAMBDA m : m.transitionKey # <<>> /\ m.outputs # <<>>),
            LAMBDA kept :
         [moore |-> IF moore = <<>> THEN <<>> ELSE <<[key |-> state, value |-> moore]>>,
          mealy |-> Tuple([i \in 1..Len(kept) |->
                             [key |-> kept[i].transitionKey, value |-> kept[i].outputs]]),
          outputSignals |->
              Tuple([i \in 1..Len(moore) |-> moore[i].signal])
              \o Flatten([i \in 1..Len(kept) |->
                            [j \in 1..Len(kept[i].outputs) |-> kept[i].outputs[j].signal]]),
          inputSignals |-> Flatten([i \in 1..Len(mealy) |-> mealy[i].inputs])])))))

extractOutputsFromCaseStatement(caseStmt, stateVarName, nextStateVarName, stateNames) ==
    With(Tuple([i \in 1..Len(caseStmt.items) |->
                  ItemOutputs(caseStmt.items[i], stateVarName, nextStateVarName, stateNames)]),
         LAMBDA per :
        [mooreOutputsByState      |-> Flatten([i \in 1..Len(per) |-> per[i].moore]),
         mealyOutputsByTransition |-> Flatten([i \in 1..Len(per) |-> per[i].mealy]),
         outputSignals |-> Distinct(Flatten([i \in 1..Len(per) |-> per[i].outputSignals])),
         inputSignals  |-> Distinct(Flatten([i \in 1..Len(per) |-> per[i].inputSignals]))])

attachOutputsToTransitions(transitions, mealyOutputsByTransition) ==
    Tuple([i \in 1..Len(transitions) |->
       LET outputs == MapGet(mealyOutputsByTransition, <<transitions[i].from, transitions[i].to>>)
       IN  IF outputs # <<>> THEN [transitions[i] EXCEPT !.outputs = outputs]
           ELSE transitions[i]])

\* ------------------------------------------------------------------ multi-FSM detector

\* a number num/den, den > 0
Q(num, den) == [num |-> num, den |-> den]
QAdd(a, b) == Q(a.num * b.den + b.num * a.den, a.den * b.den)
QMul(a, b) == Q(a.num * b.num, a.den * b.den)
QLe(a, b) == a.num * b.den <= b.num * a.den
QEq(a, b) == a.num * b.den = b.num * a.den
QMin(a, b) == IF QLe(a, b) THEN a ELSE b

\* the number of distinct elements of a sequence
Count(names) == Cardinality(Range(names))

calculateConfidence_NoCap(enumDef, transitions, resetState, outputsResult) ==
    LET coverage  == Q(Count([i \in 1..Len(transitions) |-> transitions[i].from]),
                       Len(enumDef.states))
        breakdown == [stateDetection       |-> Q(1, 1),
                      transitionExtraction |-> QAdd(coverage, Q(2, 10)),
                      resetDetection       |-> IF resetState # NoName THEN Q(1, 1) ELSE Q(5, 10),
                      outputExtraction     |->
                          IF outputsResult.outputSignals # <<>> \/ outputsResult.inputSignals # <<>>
                          THEN Q(9, 10) ELSE Q(7, 10)]
    IN  [overall   |-> QAdd(QAdd(QMul(breakdown.stateDetection, Q(3, 10)),
                                 QMul(breakdown.transitionExtraction, Q(4, 10))),
                            QAdd(QMul(breakdown.resetDetection, Q(15, 100)),
                                 QMul(breakdown.outputExtraction, Q(15, 100)))),
         breakdown |-> breakdown]

calculateConfidence(enumDef, transitions, resetState, outputsResult) ==
    LET coverage  == Q(Count([i \in 1..Len(transitions) |-> transitions[i].from]),
                       Len(enumDef.states))
        breakdown == [stateDetection       |-> Q(1, 1),
                      transitionExtraction |-> QMin(Q(1, 1), QAdd(coverage, Q(2, 10))),
                      resetDetection       |-> IF resetState # NoName THEN Q(1, 1) ELSE Q(5, 10),
                      outputExtraction     |->
                          IF outputsResult.outputSignals # <<>> \/ outputsResult.inputSignals # <<>>
                          THEN Q(9, 10) ELSE Q(7, 10)]
    IN  [overall   |-> QAdd(QAdd(QMul(breakdown.stateDetection, Q(3, 10)),
                                 QMul(breakdown.transitionExtraction, Q(4, 10))),
                            QAdd(QMul(breakdown.resetDetection, Q(15, 100)),
                                 QMul(breakdown.outputExtraction, Q(15, 100)))),
         breakdown |-> breakdown]

\* detectEnumDefinitions: the typedefs that have a name and at least one state
detectEnumDefinitions(root) ==
    SelectSeq(root.typedefs, LAMBDA e : e.typeName # NoName /\ e.states # <<>>)

\* the state names that hold one of idle, init, start, run, done, wait, ready, busy, error
FsmStateNames == {"IDLE", "RUN", "DONE", "TX_IDLE", "TX_START", "RX_IDLE", "RX_START"}

looksLikeFSMEnum(enumDef) ==
    \/ \E part \in {"state", "fsm", "phase", "mode"} : part \in Range(Words(enumDef.typeName))
    \/ Len(SelectSeq(enumDef.states, LAMBDA n : n \in FsmStateNames)) >= 2

\* the labels of the case items that are one upper-case identifier, each once
inferStatesFromCase(caseStmt) ==
    With(SelectSeq([i \in 1..Len(caseStmt.items) |->
                      With(ItemText(caseStmt.items[i]), LAMBDA t :
                          SubSeq(t, 1, FirstIndex(t, 1, ":") - 1))],
                   LAMBDA l : Len(l) = 1 /\ l[1] \in UpperIdents), LAMBDA labels :
        Distinct([i \in 1..Len(labels) |-> labels[i][1]]))

\* no FSM: the null that buildFSMFromEnum and buildFSMFromRegisters return
Null == [name |-> NoName]

buildFSMFromEnum(enumDef, registerPairs, alwaysBlocks, root, flat) ==
  With(findStateRegistersForEnum(enumDef, registerPairs), LAMBDA pair :
   IF pair = NoPair THEN Null
   ELSE
   With2(pair.state.varName,
         IF pair.nextState # NoRegister THEN pair.nextState.varName ELSE pair.state.varName,
         LAMBDA stateVarName, nextStateVarName :
    With2(detectBlockStyle(alwaysBlocks, stateVarName, nextStateVarName),
          getTransitionBlock(alwaysBlocks, stateVarName, nextStateVarName),
          LAMBDA blockStyle, transitionBlock :
     IF transitionBlock = NoBlock THEN Null
     ELSE
     With(findStateCaseStatements(root.blocks[transitionBlock.line],
                                  {stateVarName, nextStateVarName}), LAMBDA caseStatements :
      IF caseStatements = <<>> THEN Null
      ELSE
      With2(extractTransitions(caseStatements[1].node, caseStatements[1].parentText,
                               stateVarName, nextStateVarName, enumDef.states,
                               transitionBlock.type, flat),
            extractOutputsFromCaseStatement(caseStatements[1].node, stateVarName,
                                            nextStateVarName, enumDef.states),
            LAMBDA extracted, outputsResult :
       With2(attachOutputsToTransitions(extracted.transitions,
                                        outputsResult.mealyOutputsByTransition),
             LET ffBlock == SelectSeq(alwaysBlocks, LAMBDA b :
                               b.type = "always_ff" /\ Assigns(b, stateVarName))
                 found   == IF ffBlock = <<>> THEN NoName
                            ELSE extractResetState(root.blocks[ffBlock[1].line], stateVarName,
                                                   enumDef.states)
             IN  IF found = NoName THEN enumDef.states[1] ELSE found,
             LAMBDA transitions, resetState :
        With(calculateConfidence(enumDef, transitions, resetState, outputsResult),
             LAMBDA confidence :
          [name |-> enumDef.typeName,
           states |-> Tuple([i \in 1..Len(enumDef.states) |->
                               [FSMState(enumDef.states[i]) EXCEPT
                                  !.outputs = MapGet(outputsResult.mooreOutputsByState,
                                                     enumDef.states[i])]]),
           transitions |-> transitions,
           resetState |-> resetState,
           encoding |-> "unknown",
           stateVarName |-> stateVarName,
           nextStateVarName |-> IF pair.nextState # NoRegister THEN nextStateVarName
                                ELSE NoName,
           blockStyle |-> blockStyle,
           confidence |-> confidence.overall,
           confidenceBreakdown |-> confidence.breakdown,
           warnings |-> <<>>,
           errors |-> <<>>,
           inputSignals |-> outputsResult.inputSignals,
           outputSignals |-> outputsResult.outputSignals])))))))

buildFSMFromRegisters(pair, alwaysBlocks, root, flat) ==
  With2(pair.state.varName,
        IF pair.nextState # NoRegister THEN pair.nextState.varName ELSE pair.state.varName,
        LAMBDA stateVarName, nextStateVarName :
   With(getTransitionBlock(alwaysBlocks, stateVarName, nextStateVarName),
        LAMBDA transitionBlock :
    IF transitionBlock = NoBlock THEN Null
    ELSE
    With(findStateCaseStatements(root.blocks[transitionBlock.line],
                                 {stateVarName, nextStateVarName}), LAMBDA caseStatements :
     IF caseStatements = <<>> THEN Null
     ELSE
     With(inferStatesFromCase(caseStatements[1].node), LAMBDA stateNames :
      IF stateNames = <<>> THEN Null
      ELSE
      With(extractTransitions(caseStatements[1].node, caseStatements[1].parentText,
                              stateVarName, nextStateVarName, stateNames,
                              transitionBlock.type, flat), LAMBDA extracted :
        [name |-> stateVarName,
         states |-> Tuple([i \in 1..Len(stateNames) |-> FSMState(stateNames[i])]),
         transitions |-> extracted.transitions,
         resetState |-> NoName,
         encoding |-> "unknown",
         stateVarName |-> stateVarName,
         nextStateVarName |-> IF pair.nextState # NoRegister THEN nextStateVarName
                              ELSE NoName,
         blockStyle |-> detectBlockStyle(alwaysBlocks, stateVarName, nextStateVarName),
         confidence |-> Q(5, 10),
         confidenceBreakdown |->
             [stateDetection |-> Q(5, 10), transitionExtraction |-> Q(6, 10),
              resetDetection |-> Q(3, 10), outputExtraction |-> Q(4, 10)],
         warnings |-> <<>>,
         errors |-> <<>>,
         inputSignals |-> <<>>,
         outputSignals |-> <<>>])))))

detectMultipleFSMs(root, flat) ==
  With(detectEnumDefinitions(root), LAMBDA enumDefs :
   With2(SelectSeq(enumDefs, looksLikeFSMEnum), detectStateRegisters(root, enumDefs),
         LAMBDA fsmEnums, allRegisters :
    With2(matchStateRegisterPairs(allRegisters), analyzeAlwaysBlocks(root, allRegisters),
          LAMBDA registerPairs, alwaysBlocks :
     With(SelectSeq([i \in 1..Len(fsmEnums) |->
                       buildFSMFromEnum(fsmEnums[i], registerPairs, alwaysBlocks, root, flat)],
                    LAMBDA f : f # Null), LAMBDA typed :
       IF typed # <<>> THEN typed
       ELSE SelectSeq([i \in 1..Len(registerPairs) |->
                         buildFSMFromRegisters(registerPairs[i], alwaysBlocks, root, flat)],
                      LAMBDA f : f # Null)))))

\* ------------------------------------------------------------------ coverage validator

findMissingCases(f) ==
    LET handled == {f.transitions[i].from :
                       i \in {j \in 1..Len(f.transitions) : ~f.transitions[j].isImplicit}}
    IN  SelectSeq(StateNames(f), LAMBDA n :
            /\ n \notin handled
            /\ ~\E i \in 1..Len(f.transitions) :
                   f.transitions[i].from = n /\ f.transitions[i].isImplicit)

\* metadata is [hasImplicitSelfLoops |-> ...]; NoMetadata when the caller passes none
NoMetadata == [hasImplicitSelfLoops |-> FALSE]

validateCoverage(f, metadata) ==
    LET missingCases   == findMissingCases(f)
        implicit       == SelectSeq(f.transitions, LAMBDA t : t.isImplicit /\ t.isSelfLoop)
        implicitStates == Distinct([i \in 1..Len(implicit) |-> implicit[i].from])
    IN  (IF missingCases # <<>> THEN <<FSMWarning("missing_case", missingCases)>> ELSE <<>>)
        \o (IF f.resetState = NoName THEN <<FSMWarning("no_reset", <<>>)>> ELSE <<>>)
        \o (IF metadata.hasImplicitSelfLoops /\ implicitStates # <<>>
              THEN <<FSMWarning("implicit_default", implicitStates)>> ELSE <<>>)

\* validateTransitionTargets: an error for each endpoint that names no state
validateTransitionTargets(f) ==
    Flatten([i \in 1..Len(f.transitions) |->
               (IF f.transitions[i].to \notin Range(StateNames(f))
                  THEN <<[unknown |-> "to", from |-> f.transitions[i].from,
                          to |-> f.transitions[i].to]>> ELSE <<>>)
               \o (IF f.transitions[i].from \notin Range(StateNames(f))
                     THEN <<[unknown |-> "from", from |-> f.transitions[i].from,
                             to |-> f.transitions[i].to]>> ELSE <<>>)])

\* ------------------------------------------------------------------ high-level API

\* the body of the loop `for (const fsm of fsms)` of extractFSMs, for all FSMs
validatedFSMs(fsms) ==
    With(fsms, LAMBDA fs :
        Tuple([i \in 1..Len(fs) |->
                 [reachabilityMarked(fs[i]) EXCEPT
                    !.warnings = @ \o reachabilityWarnings(fs[i])
                                   \o validateCoverage(fs[i], NoMetadata)]]))

\* the name after `module` of the first module_declaration, NoName without one
getModuleName(root) == root.name

\* extractFSMs on the tree of the source: always a ModuleAnalysis
extractFSMs(root, flat) ==
    With(detectMultipleFSMs(root, flat), LAMBDA fsms :
        [moduleName  |-> IF getModuleName(root) # NoName THEN getModuleName(root)
                         ELSE "unknown",
         fsms        |-> validatedFSMs(fsms),
         parseErrors |-> <<>>])


(* A line of the generated text is the sequence of its tokens; the four    *)
(* blanks that indent a line are the token Indent, and the string returned *)
(* by lines.join('\n') is the list of lines.                                *)
Indent == "    "

defaultMermaidOptions ==
    [direction |-> "TB", showConditions |-> TRUE, showOutputs |-> FALSE, showSelfLoops |-> TRUE]

\* { ...defaultMermaidOptions, ...options }: options holds any of the four keys
MergeOptions(options) ==
    [k \in DOMAIN defaultMermaidOptions |->
        IF k \in DOMAIN options THEN options[k] ELSE defaultMermaidOptions[k]]

\* `${output.signal}=${value}` with 1'b1 -> 1 and 1'b0 -> 0 in the value
formatOutput(output) ==
    <<output.signal, "=">>
    \o Tuple([i \in 1..Len(output.value) |->
                CASE output.value[i] = "1'b1" -> "1"
                  [] output.value[i] = "1'b0" -> "0"
                  [] OTHER -> output.value[i]])

\* outputs.map(formatOutput).join(', ')
formatOutputs(outputs) ==
    Flatten([i \in 1..Len(outputs) |->
               (IF i > 1 THEN <<",">> ELSE <<>>) \o formatOutput(outputs[i])])

generateStateDefinition(state) ==
    << <<Indent, state.name, ":", state.name>> >>
    \o Tuple([i \in 1..Len(state.outputs) |->
                <<Indent, state.name, ":">> \o formatOutput(state.outputs[i])])

\* labelParts.join(' ') is the same tokens whether the condition is there or not
generateTransitionLine_AlwaysCondition(transition, o) ==
    LET guard == IF transition.condition # <<>> THEN transition.condition ELSE <<>>
        label == IF o.showOutputs /\ Len(transition.outputs) > 0
                 THEN guard \o <<"/">> \o formatOutputs(transition.outputs)
                 ELSE guard
    IN  IF Len(label) > 0
        THEN <<transition.from, "-->", transition.to, ":">> \o label
        ELSE <<transition.from, "-->", transition.to>>

generateTransitionLine(transition, o) ==
    LET guard == IF o.showConditions /\ transition.condition # <<>>
                 THEN transition.condition ELSE <<>>
        label == IF o.showOutputs /\ Len(transition.outputs) > 0
                 THEN guard \o <<"/">> \o formatOutputs(transition.outputs)
                 ELSE guard
    IN  IF Len(label) > 0
        THEN <<transition.from, "-->", transition.to, ":">> \o label
        ELSE <<transition.from, "-->", transition.to>>

generateTransitions(f, o) ==
    With(SelectSeq(f.transitions, LAMBDA t :
                      /\ ~(t.isSelfLoop /\ ~o.showSelfLoops)
                      /\ ~(t.isImplicit /\ ~o.showSelfLoops)), LAMBDA kept :
        Tuple([i \in 1..Len(kept) |-> <<Indent>> \o generateTransitionLine(kept[i], o)]))

generateMermaid(f, options) ==
    With(MergeOptions(options), LAMBDA o :
        << <<"stateDiagram-v2">>, <<Indent, "direction", o.direction>> >>
        \o (IF f.resetState # NoName THEN << <<Indent, "[*]", "-->", f.resetState>> >> ELSE <<>>)
        \o (LET statesWithOutputs == SelectSeq(f.states, LAMBDA st : Len(st.outputs) > 0)
            IN  IF o.showOutputs /\ Len(statesWithOutputs) > 0
                THEN << <<>> >>
                     \o Flatten([i \in 1..Len(statesWithOutputs) |->
                                   generateStateDefinition(statesWithOutputs[i])])
                ELSE <<>>)
        \o << <<>> >>
        \o generateTransitions(f, o))

\* the defaults of extract's options that the model passes: outputs, warnings
defaultExtractOptions == [outputs |-> FALSE, warnings |-> FALSE]

\* `%% WARNING: ${w.message}`; the message is told by the type and the states
WarningLine(w) == <<"%%", "WARNING:", w.type>> \o w.states

\* extract after its call of extractFSMs, with format 'mermaid' and no FSM
\* selected by name: the lines of the output, or the error thrown
extractFrom(analysisOfSource, options) ==
    With2([k \in DOMAIN defaultExtractOptions |->
             IF k \in DOMAIN options THEN options[k] ELSE defaultExtractOptions[k]],
          analysisOfSource, LAMBDA o, analysis :
      IF Len(analysis.fsms) = 0 THEN [error |-> "NO_FSM", output |-> <<>>]
      ELSE With2(analysis.fsms[1],
                 generateMermaid(analysis.fsms[1],
                                 [direction |-> "TB", showConditions |-> TRUE,
                                  showOutputs |-> o.outputs, showSelfLoops |-> TRUE]),
                 LAMBDA f, output :
             [error  |-> NoName,
              output |-> IF o.warnings /\ Len(f.warnings) > 0
                         THEN Tuple([i \in 1..Len(f.warnings) |-> WarningLine(f.warnings[i])])
                              \o << <<>> >> \o output
                         ELSE output]))

extract(root, flat, options) == extractFrom(extractFSMs(root, flat), options)

\* ------------------------------------------------------------------ hand-built FSMs

\* state lists of the FSMs given to the validators, in declaration order
StateLists ==
    { <<"IDLE", "RUN", "DONE">>, <<"SEND", "ORPHAN", "IDLE">>, <<"STUCK", "DONE">> }

\* transitions over a state list: any endpoints, the isSelfLoop flag free (the
\* tests build transitions without it), isImplicit only on flagged self-loops
TransitionsOver(names) ==
    { t \in { FSMTransition(a, b, <<>>, <<>>, sl, im, "always_comb") :
                a \in Range(names), b \in Range(names), sl \in BOOLEAN, im \in BOOLEAN } :
        t.isImplicit => (t.isSelfLoop /\ t.from = t.to) }

HandBuiltFSM(names, ts, r) ==
    [states |-> [i \in 1..Len(names) |-> FSMState(names[i])],
     transitions |-> ts,
     resetState |-> r,
     confidence |-> Q(9, 10)]

\* a name that is in no state list
Unlisted == "LOST"

\* transitions that leave or enter a state that is not in the list
Dangling(names) ==
    { FSMTransition(names[1], Unlisted, <<>>, <<>>, FALSE, FALSE, "always_comb"),
      FSMTransition(Unlisted, names[1], <<>>, <<>>, FALSE, FALSE, "always_comb") }

NoFSM == [states |-> <<>>, transitions |-> <<>>, resetState |-> NoName]
NoOpts == [direction |-> "TB", showConditions |-> FALSE, showOutputs |-> FALSE,
           showSelfLoops |-> FALSE]

\* ------------------------------------------------------------------ SpecV: validators

InitV ==
    /\ OthersIdle
    /\ pc = "input"
    /\ \E names \in StateLists, k \in 0..MaxTrans :
          \E ts \in [1..k -> TransitionsOver(names) \cup Dangling(names)],
             r \in Range(names) \cup {NoName} :
             fsm = HandBuiltFSM(names, ts, r)
    /\ warnings = <<>>
    /\ text = <<>>
    /\ opts = NoOpts
    /\ src = <<>>
    /\ out = <<>>

ValidateReachability ==
    /\ pc = "input"
    /\ warnings' = reachabilityWarnings(fsm)
    /\ fsm' = reachabilityMarked(fsm)
    /\ pc' = "reachability"
    /\ UNCHANGED <<text, opts, src, out>>
    /\ UNCHANGED otherVars

\* validateCoverage(fsm) or validateCoverage(fsm, metadata) on the marked FSM
ValidateCoverage ==
    /\ pc = "reachability"
    /\ \E metadata \in {NoMetadata, [hasImplicitSelfLoops |-> TRUE]} :
          warnings' = warnings \o validateCoverage(fsm, metadata)
    /\ pc' = "coverage"
    /\ UNCHANGED <<fsm, text, opts, src, out>>
    /\ UNCHANGED otherVars

NextV == ValidateReachability \/ ValidateCoverage

SpecV == InitV /\ [][NextV]_vars

\* ------------------------------------------------------------------ claims on SpecV

WarningsOfType(type) == SelectSeq(warnings, LAMBDA w : w.type = type)

\* position of a state name in the FSM's declaration order
DeclIndex(n) == CHOOSE i \in 1..Len(fsm.states) : fsm.states[i].name = n

InDeclOrder(names) ==
    \A i, j \in 1..Len(names) : i < j => DeclIndex(names[i]) < DeclIndex(names[j])

\* states, other than the reset state, that no non-self-loop transition targets
NoIncoming ==
    { n \in Range(StateNames(fsm)) :
        /\ n # fsm.resetState
        /\ ~\E i \in 1..Len(fsm.transitions) :
              ~fsm.transitions[i].isSelfLoop /\ fsm.transitions[i].to = n }

\* states that no non-self-loop transition leaves
NoOutgoing ==
    { n \in Range(StateNames(fsm)) :
        ~\E i \in 1..Len(fsm.transitions) :
              ~fsm.transitions[i].isSelfLoop /\ fsm.transitions[i].from = n }

\* the names used here that contain a word of the terminal-intent vocabulary
\* (DONE contains done, SEND contains end)
VocabularyNames == {"DONE", "SEND"}

WithFlagsOf(f, g) ==
    [f EXCEPT !.states =
       [i \in 1..Len(f.states) |->
          [f.states[i] EXCEPT !.isUnreachable = g.states[i].isUnreachable,
                              !.isTerminal    = g.states[i].isTerminal]]]

\* what a step of a validator leaves of the FSM
FrameStep ==
    /\ (pc = "input" /\ pc' = "reachability") =>
          (Len(fsm'.states) = Len(fsm.states) /\ fsm' = WithFlagsOf(fsm, fsm'))
    /\ (pc = "reachability" /\ pc' = "coverage") => (fsm' = fsm)

\* C12: validateReachability changes nothing of the FSM but the flags
\* isUnreachable and isTerminal of its states (transitions, state names and
\* order, reset state, outputs and confidence stay as they were),
\* validateCoverage changes nothing at all, and both return for every FSM,
\* also when a transition names a state that is not in the state list.
C12_ValidatorsFrame ==
    /\ [][FrameStep]_vars
    /\ [](pc = "input" => ENABLED ValidateReachability)
    /\ [](pc = "reachability" => ENABLED ValidateCoverage)

\* both validators have run on an FSM with a transition to an unlisted state,
\* and a flag was set
C12_Witness ==
    /\ pc = "coverage"
    /\ \E i \in 1..Len(fsm.transitions) : fsm.transitions[i].to = Unlisted
    /\ \E i \in 1..Len(fsm.transitions) : fsm.transitions[i].from = Unlisted
    /\ \E i \in 1..Len(fsm.states) : fsm.states[i].isUnreachable
    /\ warnings # <<>>

\* states that are the source of no explicit (non-implicit) transition
NoExplicitSource ==
    { n \in Range(StateNames(fsm)) :
        ~\E i \in 1..Len(fsm.transitions) :
              ~fsm.transitions[i].isImplicit /\ fsm.transitions[i].from = n }

\* C13: after validateCoverage the missing_case warning lists exactly the
\* states that are the source of no explicit transition, those whose only
\* outgoing transition is a synthesized implicit self-loop included, and is
\* absent when there is no such state.
C13_MissingCaseExact ==
    pc = "coverage" =>
        LET ws == WarningsOfType("missing_case")
        IN  /\ Len(ws) = (IF NoExplicitSource = {} THEN 0 ELSE 1)
            /\ \A k \in 1..Len(ws) : Range(ws[k].states) = NoExplicitSource

\* the same statement for FSMs without implicit transitions
C13_MissingCaseNoImplicit ==
    (\A i \in 1..Len(fsm.transitions) : ~fsm.transitions[i].isImplicit)
    => C13_MissingCaseExact

\* ------------------------------------------------------------------ SpecX: extractTransitions

XStates == <<"IDLE", "RUN", "DONE">>

NextAssign(s) == Assign("next_state", "=", <<s>>)

\* if (a) ns = S1; else if (b) ns = S2; else ns = S3;
ThreeWay(s1, s2, s3) ==
    IfElse(<<"a">>, <<NextAssign(s1)>>, FALSE,
           <<IfElse(<<"b">>, <<NextAssign(s2)>>, FALSE, <<NextAssign(s3)>>, FALSE)>>, FALSE)

\* the bodies of the case arms
ArmBodies ==
    {<<>>, <<NextAssign("state")>>}
    \cup {<<NextAssign("DONE")>>}
    \cup {<<If(<<"a">>, <<NextAssign("RUN")>>, b)>> : b \in BOOLEAN}
    \cup {<<IfElse(<<"a">>, <<NextAssign("RUN")>>, TRUE, <<NextAssign("DONE")>>, TRUE)>>}
    \cup {<<ThreeWay("RUN", "DONE", "IDLE")>>}
    \cup {<<NextAssign("RUN"), If(<<"a">>, <<NextAssign("DONE")>>, FALSE)>>}
    \cup {<<NextAssign("RUN"), NextAssign("DONE")>>}

ArmLabels == {<<"IDLE">>, <<"RUN">>, <<"IDLE", "RUN">>, <<"default">>}

Arms == {CaseItem(l, b, Len(b) > 1) : l \in ArmLabels, b \in ArmBodies}

\* the always_comb body around the case statement
ParentText(in) ==
    <<"begin">>
    \o (IF in.default THEN getNodeText(Assign(in.nextStateVarName, "=", <<in.stateVarName>>))
        ELSE <<>>)
    \o getNodeText(in.case) \o <<"end">>

InitX ==
    /\ OthersIdle
    /\ pc = "source"
    /\ \E k \in 0..MaxArms :
          \E items \in [1..k -> Arms], d \in BOOLEAN, flat \in BOOLEAN :
             /\ flat => \E i \in 1..k : \E j \in 1..Len(items[i].body) :
                           items[i].body[j].kind = "if" /\ IsElseIf(items[i].body[j])
             /\ src = [states |-> XStates, stateVarName |-> "state",
                    nextStateVarName |-> "next_state", default |-> d,
                    case |-> Case("state", items), flat |-> flat]
    /\ fsm = NoFSM
    /\ warnings = <<>>
    /\ text = <<>>
    /\ opts = NoOpts
    /\ out = <<>>

ExtractTransitions ==
    /\ pc = "source"
    /\ out' = extractTransitions(src.case, ParentText(src), src.stateVarName,
                                 src.nextStateVarName, src.states, "always_comb", src.flat)
    /\ pc' = "extracted"
    /\ UNCHANGED <<fsm, warnings, text, opts, src>>
    /\ UNCHANGED otherVars

NextX == ExtractTransitions

SpecX == InitX /\ [][NextX]_vars

\* ------------------------------------------------------------------ SpecP: detectMultipleFSMs

(* The modules are built from a description of each machine in them:        *)
(*   typeName, states, stateVar, nextVar   the names                        *)
(*   inputs, outputs                       a signal per state               *)
(* and from the shape of the module:                                        *)
(*   typed     the states are a typedef enum (else the registers are logic) *)
(*   style     "two": clocked block plus combinational block                *)
(*             "one": one clocked block with the case statement in it       *)
(*   clocked, comb   the keywords of the blocks                             *)
(*   reset     the index of the state assigned under if (!rst_n), 0 if none *)
(*   default   the combinational block starts with nextVar = stateVar        *)
(*   arms      for each state the kind of its case arm                      *)
(*   keyword   case, or casez with one more arm under a wildcard label      *)
(*   spare     the module also declares the enum mode_t, which types no     *)
(*             register                                                      *)
MachineA(nextVar) ==
    [typeName |-> "state_t", states |-> <<"IDLE", "RUN", "DONE">>,
     stateVar |-> "state", nextVar |-> nextVar,
     inputs |-> <<"start", "done", "go">>, outputs |-> <<"ready", "busy", "valid">>]

MachineTx(nextVar) ==
    [typeName |-> "tx_state_t", states |-> <<"TX_IDLE", "TX_START", "TX_DATA">>,
     stateVar |-> "tx_state", nextVar |-> nextVar,
     inputs |-> <<"tx_start", "tx_bit", "tx_last">>,
     outputs |-> <<"tx_ready", "tx_busy", "tx_done">>]

MachineRx(nextVar) ==
    [typeName |-> "rx_state_t", states |-> <<"RX_IDLE", "RX_START", "RX_DATA">>,
     stateVar |-> "rx_state", nextVar |-> nextVar,
     inputs |-> <<"rx_start", "rx_bit", "rx_last">>,
     outputs |-> <<"rx_ready", "rx_busy", "rx_valid">>]

ArmKinds == {"none", "empty", "go", "if", "moore-if", "chain"}

\* the case arm of state i of machine m, written to register r with operator op
Arm(m, i, kind, r, op) ==
    LET n    == Len(m.states)
        next == m.states[(i % n) + 1]
        prev == m.states[((i + n - 2) % n) + 1]
        Go(s) == Assign(r, op, <<s>>)
    IN  CASE kind = "none"     -> <<>>
          [] kind = "empty"    -> <<CaseItem(<<m.states[i]>>, <<>>, FALSE)>>
          [] kind = "go"       -> <<CaseItem(<<m.states[i]>>, <<Go(next)>>, TRUE)>>
          [] kind = "if"       ->
                <<CaseItem(<<m.states[i]>>, <<If(<<m.inputs[i]>>, <<Go(next)>>, FALSE)>>, FALSE)>>
          [] kind = "moore-if" ->
                <<CaseItem(<<m.states[i]>>,
                           <<Assign(m.outputs[i], op, <<"1'b1">>),
                             If(<<m.inputs[i]>>, <<Go(next)>>, FALSE)>>, TRUE)>>
          [] kind = "chain"    ->
                <<CaseItem(<<m.states[i]>>,
                           <<IfElse(<<m.inputs[i]>>, <<Go(next)>>, FALSE,
                                    <<If(<<"stop">>, <<Go(prev)>>, FALSE)>>, FALSE)>>, TRUE)>>

\* a casez arm whose label is a pattern with wildcard bits
WildcardArm(m, r, op) == CaseItem(<<"3'b1??">>, <<Assign(r, op, <<m.states[1]>>)>>, FALSE)

MachineCase(m, shape, r, op) ==
    LET arms == Flatten([i \in 1..Len(m.states) |-> Arm(m, i, shape.arms[i], r, op)])
    IN  IF shape.keyword = "casez"
        THEN Casez(m.stateVar, arms \o <<WildcardArm(m, r, op)>>)
        ELSE Case(m.stateVar, arms)

ClockedSens == <<"@", "(", "posedge", "clk", "or", "negedge", "rst_n", ")">>

\* the declarations, typedefs and always blocks of one machine
MachineTypedefs(m, shape) ==
    IF shape.typed THEN <<[typeName |-> m.typeName, states |-> m.states]>> ELSE <<>>

MachineDecls(m, shape) ==
    <<[type |-> IF shape.typed THEN m.typeName ELSE "logic",
       vars |-> IF shape.style = "two" THEN <<m.stateVar, m.nextVar>> ELSE <<m.stateVar>>]>>

MachineBlocks(m, shape) ==
    LET Reset(then, block, else) ==
            IF shape.reset = 0 THEN else
            ELSE <<IfElse(<<"!", "rst_n">>,
                          <<Assign(m.stateVar, "<=", <<m.states[shape.reset]>>)>>, block,
                          else, block)>>
    IN  IF shape.style = "two"
        THEN <<[keyword |-> shape.clocked, sens |-> ClockedSens,
                body |-> Reset(FALSE, FALSE, <<Assign(m.stateVar, "<=", <<m.nextVar>>)>>)],
               [keyword |-> shape.comb,
                sens |-> IF shape.comb = "always_comb" THEN <<>> ELSE <<"@", "(", "*", ")">>,
                body |-> (IF shape.default
                            THEN <<Assign(m.nextVar, "=", <<m.stateVar>>)>> ELSE <<>>)
                         \o [i \in 1..Len(m.outputs) |-> Assign(m.outputs[i], "=", <<"1'b0">>)]
                         \o <<MachineCase(m, shape, m.nextVar, "=")>>]>>
        ELSE <<[keyword |-> shape.clocked, sens |-> ClockedSens,
                body |-> Reset(TRUE, TRUE, <<MachineCase(m, shape, m.stateVar, "<=")>>)]>>

\* typedef enum logic {NORMAL, TEST} mode_t;
SpareEnum == [typeName |-> "mode_t", states |-> <<"NORMAL", "TEST">>]

Module(machines, shape) ==
    [name     |-> IF Len(machines) = 2 THEN "uart_controller"
                  ELSE IF shape.style = "one" THEN "one_block_fsm" ELSE "simple_fsm",
     typedefs |-> (IF shape.spare THEN <<SpareEnum>> ELSE <<>>)
                  \o Flatten([i \in 1..Len(machines) |-> MachineTypedefs(machines[i], shape)]),
     decls    |-> Flatten([i \in 1..Len(machines) |-> MachineDecls(machines[i], shape)]),
     blocks   |-> Flatten([i \in 1..Len(machines) |-> MachineBlocks(machines[i], shape)])]

\* tests/fixtures/simple-fsm.sv
SimpleFsmShape ==
    [typed |-> TRUE, style |-> "two", clocked |-> "always_ff", comb |-> "always_comb",
     reset |-> 1, default |-> TRUE, arms |-> <<"moore-if", "moore-if", "go">>,
     keyword |-> "case", spare |-> FALSE]

SimpleFsm == Module(<<MachineA("next_state")>>, SimpleFsmShape)

MachineLists ==
    {<<MachineA("next_state")>>,
     <<MachineTx("tx_next_state"), MachineRx("rx_next_state")>>,
     <<MachineTx("tx_state_next"), MachineRx("rx_state_next")>>}

\* the kinds of the arms of the three states
ArmLists ==
    {<<"moore-if", "moore-if", "go">>, <<"if", "empty", "none">>, <<"go", "if", "chain">>,
     <<"chain", "moore-if", "go">>, <<"empty", "empty", "none">>, <<"none", "if", "go">>}

Shapes ==
    [typed : BOOLEAN, style : {"two", "one"}, clocked : {"always_ff", "always"},
     comb : {"always_comb", "always"}, reset : {0, 1, 3}, default : BOOLEAN,
     arms : ArmLists, keyword : {"case", "casez"}, spare : BOOLEAN]

InitP ==
    /\ OthersIdle
    /\ pc = "module"
    /\ \E machines \in MachineLists, shape \in Shapes, flat \in BOOLEAN :
          /\ shape.style = "one" => shape.comb = "always_comb" /\ ~shape.default
          /\ shape.comb = "always" => shape.default
          /\ Len(machines) = 2 => shape.typed /\ shape.arms[3] # "chain"
          /\ flat => \E i \in 1..3 : shape.arms[i] = "chain"
          /\ shape.keyword = "casez" =>
                shape.clocked = "always_ff" /\ shape.comb = "always_comb" /\ shape.reset = 1
          /\ shape.spare =>
                /\ shape.clocked = "always_ff" /\ shape.comb = "always_comb"
                /\ shape.reset = 1 /\ shape.keyword = "case" /\ Len(machines) = 1
          /\ src = [root |-> Module(machines, shape), machines |-> machines,
                    shape |-> shape, flat |-> flat]
    /\ fsm = NoFSM
    /\ warnings = <<>>
    /\ text = <<>>
    /\ opts = NoOpts
    /\ out = <<>>

DetectMultipleFSMs ==
    /\ pc = "module"
    /\ out' = detectMultipleFSMs(src.root, src.flat)
    /\ pc' = "detected"
    /\ UNCHANGED <<fsm, warnings, text, opts, src>>
    /\ UNCHANGED otherVars

\* the loop of extractFSMs over the detected FSMs
ValidateFSMs ==
    /\ pc = "detected"
    /\ out' = validatedFSMs(out)
    /\ pc' = "validated"
    /\ UNCHANGED <<fsm, warnings, text, opts, src>>
    /\ UNCHANGED otherVars

NextP == DetectMultipleFSMs \/ ValidateFSMs

SpecP == InitP /\ [][NextP]_vars

\* ------------------------------------------------------------------ claims on SpecX

ExplicitFrom(s) ==
    {i \in 1..Len(out.transitions) :
        out.transitions[i].from = s /\ ~out.transitions[i].isImplicit}

ImplicitFrom(s) ==
    {i \in 1..Len(out.transitions) :
        out.transitions[i].from = s /\ out.transitions[i].isImplicit}

\* C4: once the default self-assignment is detected, every state without an
\* explicit outgoing transition has exactly one synthesized transition (a
\* self-loop flagged isImplicit and isSelfLoop), a state with an explicit
\* transition has none, and the number of synthesized transitions is the
\* number of states minus the number of states with an explicit transition.
C4_ImplicitSelfLoops ==
    (pc = "extracted" /\ out.hasDefaultAssignment) =>
        /\ \A s \in Range(src.states) :
              IF ExplicitFrom(s) = {}
              THEN /\ Cardinality(ImplicitFrom(s)) = 1
                   /\ \A i \in ImplicitFrom(s) :
                         /\ out.transitions[i].to = s
                         /\ out.transitions[i].isSelfLoop
              ELSE ImplicitFrom(s) = {}
        /\ Cardinality({i \in 1..Len(out.transitions) : out.transitions[i].isImplicit})
              = Cardinality({s \in Range(src.states) : ExplicitFrom(s) = {}})

\* the same statement for case statements in which no label is repeated
C4_DistinctLabels ==
    (\A i, j \in 1..Len(src.case.items) :
        i # j => Range(src.case.items[i].labels) \cap Range(src.case.items[j].labels) = {})
    => C4_ImplicitSelfLoops

\* C5: the arm `S: if (a) ns = S1; else if (b) ns = S2; else ns = S3;` gives
\* exactly three transitions from S, guarded a, (not a) and b, (not a) and (not b).
C5_ThreeWayGuards ==
    (/\ pc = "extracted"
     /\ Len(src.case.items) = 1
     /\ src.case.items[1].labels = <<"IDLE">>
     /\ src.case.items[1].body = <<ThreeWay("RUN", "DONE", "IDLE")>>)
    => LET ts == SelectSeq(out.transitions, LAMBDA t : ~t.isImplicit)
       IN  /\ Len(ts) = 3
           /\ \A i \in 1..3 : ts[i].from = "IDLE"
           /\ ts[1].to = "RUN"  /\ ts[1].condition = <<"a">>
           /\ ts[2].to = "DONE" /\ ts[2].condition = <<"!", "a", "&&", "b">>
           /\ ts[3].to = "IDLE" /\ ts[3].condition = <<"!", "a", "&&", "!", "b">>

Edge(t) == <<t.from, t.to, t.condition>>

\* the explicit transitions of the result, as <<from, to, condition>>
ExplicitEdges ==
    LET ts == SelectSeq(out.transitions, LAMBDA t : ~t.isImplicit)
    IN  [i \in 1..Len(ts) |-> Edge(ts[i])]

\* the case statement is the one arm IDLE with this body
OnlyArm(body) ==
    /\ pc = "extracted"
    /\ Len(src.case.items) = 1
    /\ src.case.items[1].labels = <<"IDLE">>
    /\ src.case.items[1].body = body

\* C17: the arm `IDLE: begin ns = RUN; if (a) ns = DONE; end` gives exactly
\* the two transitions IDLE->DONE guarded a and IDLE->RUN guarded not a, and
\* the arm `IDLE: begin ns = RUN; ns = DONE; end` gives only the transition
\* of its last assignment, IDLE->DONE.
C17_LastWriteWins ==
    /\ OnlyArm(<<NextAssign("RUN"), If(<<"a">>, <<NextAssign("DONE")>>, FALSE)>>) =>
          /\ Len(ExplicitEdges) = 2
          /\ <<"IDLE", "DONE", <<"a">>>> \in Range(ExplicitEdges)
          /\ \E g \in {<<"!", "a">>, <<"!", "(", "a", ")">>} :
                <<"IDLE", "RUN", g>> \in Range(ExplicitEdges)
    /\ OnlyArm(<<NextAssign("RUN"), NextAssign("DONE")>>) =>
          ExplicitEdges = << <<"IDLE", "DONE", <<>>>> >>


InUnit(q) == QLe(Q(0, 1), q) /\ QLe(q, Q(1, 1))

\* C3: every FSM record that detectMultipleFSMs returns, from an enum or
\* inferred from the registers, has a confidence between 0 and 1 and each of
\* its four breakdown factors between 0 and 1.
C3_ConfidenceInUnit ==
    pc \in {"detected", "validated"} =>
        \A i \in 1..Len(out) :
            /\ InUnit(out[i].confidence)
            /\ InUnit(out[i].confidenceBreakdown.stateDetection)
            /\ InUnit(out[i].confidenceBreakdown.transitionExtraction)
            /\ InUnit(out[i].confidenceBreakdown.resetDetection)
            /\ InUnit(out[i].confidenceBreakdown.outputExtraction)

\* an FSM built from an enum whose states are all covered, so that coverage + 0.2 is capped
C3_Witness ==
    /\ pc = "detected"
    /\ src.shape.typed
    /\ \E i \in 1..Len(out) :
          /\ Count([j \in 1..Len(out[i].transitions) |-> out[i].transitions[j].from])
                = Len(out[i].states)
          /\ QEq(out[i].confidenceBreakdown.transitionExtraction, Q(1, 1))

C7_OneBlock ==
    (pc = "detected" /\ src.shape.style = "one" /\ src.shape.typed) =>
        \A i \in 1..Len(out) : out[i].blockStyle = "one-block"

\* the same statement for always_ff blocks only
C7_OneBlockFF ==
    (src.shape.clocked = "always_ff") => C7_OneBlock

\* the case statement assigns the register it is there to drive
Driven(shape) == shape.default \/ \E i \in 1..3 : shape.arms[i] \notin {"none", "empty"}

\* C8: a module with two typed enums, each with its own registers and
\* blocks, gives exactly two FSM records whose state sets are disjoint and
\* whose transitions mention only the states of their own enum.
C8_TwoFSMs ==
    (pc = "detected" /\ Len(src.machines) = 2 /\ Driven(src.shape)) =>
        /\ Len(out) = 2
        /\ Range(StateNames(out[1])) \cap Range(StateNames(out[2])) = {}
        /\ \A i \in 1..2 : \A j \in 1..Len(out[i].transitions) :
              /\ out[i].transitions[j].from \in Range(StateNames(out[i]))
              /\ out[i].transitions[j].to \in Range(StateNames(out[i]))

\* the same statement when the next-state registers are named <prefix>state_next
C8_TwoFSMsStateNext ==
    (\A i \in 1..Len(src.machines) : EndsWith(src.machines[i].nextVar, <<"state", "next">>))
    => C8_TwoFSMs

\* the state-like values that the case arms assign to the registers of f and
\* that are no state of f
DroppedTargets(f) ==
    LET cases == Flatten([i \in 1..Len(src.root.blocks) |->
                            caseNodes(src.root.blocks[i].body, <<>>)])
        nodes == Flatten([i \in 1..Len(cases) |-> assignmentNodes(<<cases[i].node>>)])
    IN  {nodes[i].value[1] :
           i \in {j \in 1..Len(nodes) :
                    /\ nodes[j].target \in {f.stateVarName, f.nextStateVarName}
                    /\ Len(nodes[j].value) = 1
                    /\ nodes[j].value[1] \in UpperIdents
                    /\ nodes[j].value[1] \notin Range(StateNames(f))}}

\* a name is reported when a warning lists it or the record carries an error
Reported(f, name) ==
    \/ f.errors # <<>>
    \/ \E i \in 1..Len(f.warnings) : name \in Range(f.warnings[i].states)

\* every transition of every FSM record names states of that record
C11_TargetsInStateList ==
    pc \in {"detected", "validated"} =>
        \A i \in 1..Len(out) : validateTransitionTargets(out[i]) = <<>>

\* C11: in every FSM record, built from an enum or inferred, each transition's
\* from and to is a state of the record, so validateTransitionTargets returns
\* no error; and an assignment of a value that is no known state is reported
\* on the record instead of being dropped silently.
C11_UnknownTargetsReported ==
    /\ C11_TargetsInStateList
    /\ pc = "validated" =>
          \A i \in 1..Len(out) : \A name \in DroppedTargets(out[i]) : Reported(out[i], name)

\* the states of f that are the source of an implicit self-loop
ImplicitLoopStates(f) ==
    {f.transitions[i].from :
        i \in {j \in 1..Len(f.transitions) :
                 f.transitions[j].isImplicit /\ f.transitions[j].isSelfLoop}}

\* C14: an FSM returned by extractFSMs that has an implicit self-loop carries
\* an implicit_default warning whose states are exactly the sources of its
\* implicit self-loops.
C14_ImplicitDefaultWarning ==
    pc = "validated" =>
        \A i \in 1..Len(out) :
            ImplicitLoopStates(out[i]) # {} =>
                \E k \in 1..Len(out[i].warnings) :
                    /\ out[i].warnings[k].type = "implicit_default"
                    /\ Range(out[i].warnings[k].states) = ImplicitLoopStates(out[i])

\* a fraction in lowest terms
RECURSIVE GCD(_, _)
GCD(a, b) == IF b = 0 THEN a ELSE GCD(b, a % b)
QLowest(q) == IF q.num = 0 THEN Q(0, 1) ELSE Q(q.num \div GCD(q.num, q.den), q.den \div GCD(q.num, q.den))

\* 0.30*stateDetection + 0.40*transitionExtraction + 0.15*resetDetection
\* + 0.15*outputExtraction
WeightedSum(b) ==
    QAdd(QLowest(QAdd(QLowest(QMul(Q(30, 100), b.stateDetection)),
                      QLowest(QMul(Q(40, 100), b.transitionExtraction)))),
         QLowest(QAdd(QLowest(QMul(Q(15, 100), b.resetDetection)),
                      QLowest(QMul(Q(15, 100), b.outputExtraction)))))

\* min(1, fraction of the states of f that are a transition source + 0.2)
CoverageFactor(f) ==
    QMin(Q(1, 1),
         QAdd(Q(Cardinality({f.transitions[j].from : j \in 1..Len(f.transitions)}),
                Len(f.states)),
              Q(2, 10)))

\* C18: the confidence of every FSM record, built from an enum or inferred,
\* is the weighted sum 0.30/0.40/0.15/0.15 of its own confidenceBreakdown, and
\* on the enum path transitionExtraction is min(1, covered fraction + 0.2).
C18_WeightedSum ==
    pc \in {"detected", "validated"} =>
        \A i \in 1..Len(out) :
            /\ QEq(QLowest(out[i].confidence),
                   QLowest(WeightedSum(out[i].confidenceBreakdown)))
            /\ src.shape.typed =>
                  QEq(out[i].confidenceBreakdown.transitionExtraction, CoverageFactor(out[i]))

\* the same statement for the records built from an enum
C18_WeightedSumEnum == src.shape.typed => C18_WeightedSum

\* the machine of the module whose enum gave the record f
MachineOf(f) ==
    CHOOSE m \in Range(src.machines) : m.typeName = f.name

\* reset detection finds the state assigned under `if (!rst_n)` of the always_ff block
C19_ResetFound ==
    (pc = "detected" /\ src.shape.typed /\ src.shape.reset # 0
       /\ src.shape.clocked = "always_ff") =>
        \A i \in 1..Len(out) :
            /\ out[i].resetState = MachineOf(out[i]).states[src.shape.reset]
            /\ QEq(out[i].confidenceBreakdown.resetDetection, Q(1, 1))

\* C19: an FSM built from an enum has resetDetection 1.0 when reset
\* detection found its reset state, and 0.5 when there is no reset to find
\* and the reset state is the first declared state by fallback.
C19_ResetDetection ==
    /\ C19_ResetFound
    /\ (pc = "detected" /\ src.shape.typed /\ src.shape.reset = 0) =>
          \A i \in 1..Len(out) :
              /\ out[i].resetState = MachineOf(out[i]).states[1]
              /\ QEq(out[i].confidenceBreakdown.resetDetection, Q(5, 10))

\* the reset state as the module is written: the state assigned under
\* `if (!rst_n)` at the head of the clocked block, or the first declared state
ResetAsWritten(f) ==
    IF src.shape.reset # 0 THEN MachineOf(f).states[src.shape.reset]
    ELSE MachineOf(f).states[1]

\* C25: the reset state of an FSM built from an enumeration is the state
\* assigned under the leading reset conditional of the clocked block, whether
\* the block is always_ff or an edge-triggered always, and the first declared
\* state when the block has no reset conditional.
C25_ResetState ==
    (pc = "detected" /\ src.shape.typed) =>
        \A i \in 1..Len(out) : out[i].resetState = ResetAsWritten(out[i])

\* C25, always_ff blocks with a reset conditional.
C25_AlwaysFFWithReset ==
    (src.shape.clocked = "always_ff" /\ src.shape.reset # 0) => C25_ResetState

\* C25, two-block machines without a reset conditional.
C25_TwoBlockWithoutReset ==
    (src.shape.style = "two" /\ src.shape.reset = 0) => C25_ResetState

\* a record built by buildFSMFromRegisters: named after its state register
Inferred(f) == f.name = f.stateVarName

\* the enums of the module that look like FSM enums
FsmEnums == SelectSeq(detectEnumDefinitions(src.root), looksLikeFSMEnum)

\* C20: an inferred FSM record (built from the case labels, confidence 0.5)
\* is in the result only when the module has no FSM-relevant enum and has a
\* register pair; an FSM-relevant enum that yields no FSM is left out
\* without any inferred FSM taking its place.
C20_InferredOnlyWithoutEnums ==
    pc = "detected" =>
        \A i \in 1..Len(out) :
            Inferred(out[i]) =>
                /\ QEq(out[i].confidence, Q(5, 10))
                /\ FsmEnums = <<>>
                /\ matchStateRegisterPairs(
                       detectStateRegisters(src.root, detectEnumDefinitions(src.root))) # <<>>

\* the same statement for the modules without a spare enum
C20_InferredNoSpare == ~src.shape.spare => C20_InferredOnlyWithoutEnums

\* ------------------------------------------------------------------ SpecE: extractFSMs, extract

\* the tree of a source without a module declaration
NoModule == [name |-> NoName, typedefs |-> <<>>, decls |-> <<>>, blocks |-> <<>>]

\* the options a caller passes to extract: any subset of the two keys
ExtractOptions ==
    { [k \in keys |-> TRUE] : keys \in SUBSET DOMAIN defaultExtractOptions }

InitE ==
    /\ OthersIdle
    /\ pc = "source"
    /\ \/ src = [root |-> NoModule, machines |-> <<>>, shape |-> SimpleFsmShape,
                  flat |-> FALSE]
       \/ \E machines \in MachineLists \cup {<<>>}, shape \in Shapes :
             /\ shape.clocked = "always_ff" /\ shape.comb = "always_comb"
             /\ shape.reset \in {0, 1}
             /\ shape.style = "one" => ~shape.default
             /\ Len(machines) = 2 => shape.typed /\ shape.arms[3] # "chain"
             /\ machines = <<>> => shape = SimpleFsmShape
             /\ shape.keyword = "casez" => shape.reset = 1
             /\ ~shape.spare
             /\ src = [root |-> Module(machines, shape), machines |-> machines,
                       shape |-> shape, flat |-> FALSE]
    /\ opts = NoOpts
    /\ fsm = NoFSM
    /\ warnings = <<>>
    /\ text = <<>>
    /\ out = <<>>

\* extractFSMs(source)
ExtractFSMs ==
    /\ pc = "source"
    /\ out' = extractFSMs(src.root, src.flat)
    /\ pc' = "analysis"
    /\ UNCHANGED <<fsm, warnings, text, opts, src>>
    /\ UNCHANGED otherVars

\* extract(source, options): the output string, or the error it throws
Extract ==
    /\ pc = "source"
    /\ \E analysis \in {extractFSMs(src.root, src.flat)}, options \in ExtractOptions :
          \E result \in {extractFrom(analysis, options)} :
             /\ opts' = options
             /\ text' = result.output
             /\ pc' = IF result.error = NoName THEN "output" ELSE result.error
    /\ UNCHANGED <<fsm, warnings, src, out>>
    /\ UNCHANGED otherVars

NextE == ExtractFSMs \/ Extract

SpecE == InitE /\ [][NextE]_vars

\* ------------------------------------------------------------------ claims on SpecE

\* C15: a source without a module declaration, or a module in which no FSM
\* is detected, makes extractFSMs fail: a ModuleAnalysis is produced only for
\* a declared module with at least one FSM, never one with an empty FSM list
\* or with a placeholder module name.
C15_DetectionFailuresFatal ==
    pc = "analysis" =>
        /\ getModuleName(src.root) # NoName
        /\ out.moduleName = getModuleName(src.root)
        /\ Len(out.fsms) > 0

\* extract itself fails with NO_FSM exactly when no FSM is detected
C15_ExtractFails ==
    /\ pc = "NO_FSM" => Len(detectMultipleFSMs(src.root, src.flat)) = 0
    /\ pc = "output" => Len(detectMultipleFSMs(src.root, src.flat)) > 0

\* the transitions of the FSMs of an analysis
AllTransitions(fsms) == Flatten([i \in 1..Len(fsms) |-> fsms[i].transitions])

\* the module with its casez statements written as case, wildcard arm left out
WithoutWildcard == Module(src.machines, [src.shape EXCEPT !.keyword = "case"])

\* the arm under a wildcard label adds no transition to any state
C16_WildcardNoTransition ==
    (pc = "analysis" /\ src.shape.keyword = "casez") =>
        AllTransitions(out.fsms) = AllTransitions(extractFSMs(WithoutWildcard, src.flat).fsms)

\* C16: a casez arm whose label is a wildcard pattern contributes no
\* transition to any state, and an unsupported-pattern diagnostic appears in
\* the analysis, in parseErrors or in the errors of an FSM.
C16_WildcardDiagnosed ==
    (pc = "analysis" /\ src.shape.keyword = "casez") =>
        /\ AllTransitions(out.fsms)
              = AllTransitions(extractFSMs(WithoutWildcard, src.flat).fsms)
        /\ \/ out.parseErrors # <<>>
           \/ \E i \in 1..Len(out.fsms) : out.fsms[i].errors # <<>>

\* ------------------------------------------------------------------ SpecM: Mermaid generator

\* state lists of the FSMs given to the generator
MermaidStateLists == { <<"IDLE", "RUN">>, <<"IDLE", "RUN", "DONE">> }

MealyOutputs == <<FSMOutput("busy", <<"1'b1">>), FSMOutput("ready", <<"1'b0">>)>>

\* the transitions given to the generator: guarded or not, with or without
\* Mealy outputs, self-loops flagged or not (the tests leave the flag out)
MermaidTransitions ==
    { [FSMTransition("IDLE", "RUN", c, c, FALSE, FALSE, "always_comb") EXCEPT !.outputs = o] :
         c \in {<<>>, <<"start">>}, o \in {<<>>, MealyOutputs} }
    \cup { FSMTransition("RUN", "IDLE", <<>>, <<>>, FALSE, FALSE, "always_comb"),
           FSMTransition("RUN", "RUN", <<>>, <<>>, FALSE, FALSE, "always_comb") }
    \cup { FSMTransition("IDLE", "IDLE", c, c, f[1], f[2], "always_comb") :
             c \in {<<>>, <<"!", "start">>},
             f \in {<<FALSE, FALSE>>, <<TRUE, FALSE>>, <<TRUE, TRUE>>} }

MermaidFSM(names, moore, ts, r) ==
    [states |-> [i \in 1..Len(names) |->
                   [FSMState(names[i]) EXCEPT
                      !.outputs = IF moore /\ i = 1 THEN <<FSMOutput("ready", <<"1'b1">>)>>
                                  ELSE <<>>]],
     transitions |-> ts,
     resetState |-> r]

\* the options a caller passes: any subset of the keys, each away from its default
PassedOptions ==
    LET away == [direction |-> "LR", showConditions |-> FALSE, showOutputs |-> TRUE,
                 showSelfLoops |-> FALSE]
    IN  { [k \in keys |-> away[k]] : keys \in SUBSET DOMAIN away }

InitM ==
    /\ OthersIdle
    /\ pc = "fsm"
    /\ \E names \in MermaidStateLists, moore \in BOOLEAN, k \in 0..MaxTrans :
          \E ts \in [1..k -> MermaidTransitions], r \in {NoName, "IDLE"} :
             fsm = MermaidFSM(names, moore, ts, r)
    /\ opts \in PassedOptions
    /\ warnings = <<>>
    /\ text = <<>>
    /\ src = <<>>
    /\ out = <<>>

GenerateMermaid ==
    /\ pc = "fsm"
    /\ text' = generateMermaid(fsm, opts)
    /\ pc' = "generated"
    /\ UNCHANGED <<fsm, warnings, opts, src, out>>
    /\ UNCHANGED otherVars

NextM == GenerateMermaid

SpecM == InitM /\ [][NextM]_vars

\* ------------------------------------------------------------------ claims on SpecM

\* the lines of the text that are arrows between two states
TransitionLines(lines) ==
    SelectSeq(lines, LAMBDA l : Len(l) >= 4 /\ l[3] = "-->" /\ l[2] # "[*]")

\* the state names that appear in the text: the ends of the arrows and the
\* names that open a state definition
NamesIn(lines) ==
    UNION { IF Len(lines[i]) >= 4 /\ lines[i][3] = "-->" THEN {lines[i][2], lines[i][4]} \ {"[*]"}
            ELSE IF Len(lines[i]) >= 4 /\ lines[i][3] = ":" THEN {lines[i][2]}
            ELSE {} : i \in 1..Len(lines) }

\* C9: the number of distinct state names and the number of transition
\* arrows read back from the text generateMermaid returns with default
\* options equal the number of states and of transitions of the FSM.
C9_RoundTrip ==
    (pc = "generated" /\ DOMAIN opts = {}) =>
        /\ Cardinality(NamesIn(text)) = Len(fsm.states)
        /\ Len(TransitionLines(text)) = Len(fsm.transitions)

\* the same statement for the FSMs whose every state is the reset state or an
\* end of a transition
C9_RoundTripConnected ==
    (\A i \in 1..Len(fsm.states) :
        \/ fsm.states[i].name = fsm.resetState
        \/ \E j \in 1..Len(fsm.transitions) :
              fsm.states[i].name \in {fsm.transitions[j].from, fsm.transitions[j].to})
    => C9_RoundTrip

\* the option in force: the one passed, or the default
InForce(key) == IF key \in DOMAIN opts THEN opts[key] ELSE defaultMermaidOptions[key]

\* the label the format gives a transition: the guard, then / and the outputs
LabelOf(t) ==
    LET guard == IF InForce("showConditions") /\ t.condition # <<>> THEN t.condition ELSE <<>>
        outs  == IF InForce("showOutputs") /\ t.outputs # <<>>
                 THEN <<"/">> \o formatOutputs(t.outputs) ELSE <<>>
    IN  IF guard \o outs = <<>> THEN <<>> ELSE <<":">> \o guard \o outs

\* C10: the text opens with the stateDiagram-v2 header and the direction
\* line, has the arrow [*] --> R exactly when the FSM has reset state R, and
\* ends with one line per transition in FSM order, FROM --> TO followed by
\* the label that applies; a transition is left out only when showSelfLoops
\* is off and it is a self-loop or implicit.
C10_LineFormat ==
    pc = "generated" =>
        LET shown == SelectSeq(fsm.transitions, LAMBDA t :
                        InForce("showSelfLoops") \/ ~(t.isSelfLoop \/ t.isImplicit))
            initial == SelectSeq(text, LAMBDA l : Len(l) >= 2 /\ l[2] = "[*]")
        IN  /\ text[1] = <<"stateDiagram-v2">>
            /\ text[2] = <<Indent, "direction", InForce("direction")>>
            /\ IF fsm.resetState # NoName
               THEN text[3] = <<Indent, "[*]", "-->", fsm.resetState>> /\ Len(initial) = 1
               ELSE initial = <<>>
            /\ Len(TransitionLines(text)) = Len(shown)
            /\ SubSeq(text, Len(text) - Len(shown) + 1, Len(text)) = TransitionLines(text)
            /\ \A i \in 1..Len(shown) :
                  TransitionLines(text)[i]
                     = <<Indent, shown[i].from, "-->", shown[i].to>> \o LabelOf(shown[i])

\* a reset arrow, a hidden self-loop and a line with guard and outputs
C10_Witness ==
    /\ pc = "generated"
    /\ fsm.resetState # NoName
    /\ Len(TransitionLines(text)) < Len(fsm.transitions)
    /\ \E i \in 1..Len(text) : "/" \in Range(text[i]) /\ "start" \in Range(text[i])

\* ------------------------------------------------------------------ register matcher runs

\* the variable names declared in the modules of the runs
RegisterNames ==
    {"state", "next_state", "current_state", "tx_state", "tx_next_state", "tx_state_next",
     "state_q", "state_d"}

\* the lists of one or two distinct names of a declaration
VarLists ==
    {<<a>> : a \in RegisterNames}
    \cup {p \in {<<a, b>> : a \in RegisterNames, b \in RegisterNames} : p[1] # p[2]}

StateEnum == [typeName |-> "state_t", states |-> <<"IDLE", "RUN", "DONE">>]
TxStateEnum == [typeName |-> "tx_state_t", states |-> <<"TX_IDLE", "TX_START">>]

\* the declarations of a module: type name1, name2; each name declared once
DeclLists ==
    LET Decls == [type : {"state_t", "tx_state_t", "logic"}, vars : VarLists]
    IN  {<<d>> : d \in Decls}
        \cup {p \in {<<d, e>> : d \in Decls, e \in Decls} :
                 Range(p[1].vars) \cap Range(p[2].vars) = {}}

\* the lists of registers a caller of matchStateRegisterPairs builds by hand
HandBuiltRegisters ==
    LET Regs == {StateRegister(n, t, b) : n \in {"state", "next_state", "tx_state", "tx_next_state"},
                                          t \in {NoName, "state_t"}, b \in BOOLEAN}
    IN  UNION {{rs \in [1..k -> Regs] :
                   \A i \in 1..k, j \in 1..k : i # j => rs[i].varName # rs[j].varName} : k \in 0..MaxRegs}

InitR ==
    /\ pc \in {"declarations", "registers"}
    /\ fsm = NoFSM
    /\ warnings = <<>>
    /\ text = <<>>
    /\ opts = NoOpts
    /\ out = <<>>
    /\ matcherOut = <<>>
    /\ ParserIdle
    /\ WebIdle
    /\ IF pc = "declarations"
       THEN /\ \E decls \in DeclLists,
                  typedefs \in {<<StateEnum, TxStateEnum>>, <<TxStateEnum, StateEnum>>} :
                  src = [root |-> [name |-> "registers", typedefs |-> typedefs,
                                   decls |-> decls, blocks |-> <<>>]]
            /\ matcherIn = <<>>
       ELSE /\ src = <<>>
            /\ matcherIn \in HandBuiltRegisters

\* const allRegisters = detectStateRegisters(root, enumDefs)
DetectStateRegisters ==
    /\ pc = "declarations"
    /\ matcherIn' = detectStateRegisters(src.root, detectEnumDefinitions(src.root))
    /\ pc' = "registers"
    /\ UNCHANGED <<fsm, warnings, text, opts, src, out, matcherOut, parserVars, webVars>>

\* const registerPairs = matchStateRegisterPairs(allRegisters)
MatchStateRegisterPairs ==
    /\ pc = "registers"
    /\ matcherOut' = matchStateRegisterPairs(matcherIn)
    /\ pc' = "pairs"
    /\ UNCHANGED <<fsm, warnings, text, opts, src, out, matcherIn, parserVars, webVars>>

NextR == DetectStateRegisters \/ MatchStateRegisterPairs

SpecR == InitR /\ [][NextR]_vars

\* ------------------------------------------------------------------ claims on SpecR

\* s is <P>state and n is <P>next_state for one prefix P
PrefixedPair(s, n) ==
    EndsWith(s, <<"state">>) /\ Words(n) = Prefix(s, 1) \o <<"next", "state">>

\* the registers i and j are the two registers of one enumeration type
OnlyTwoOfType(i, j) ==
    /\ matcherIn[i].typeName # NoName
    /\ \A k \in DOMAIN matcherIn :
          matcherIn[k].typeName = matcherIn[i].typeName <=> k \in {i, j}

PairedAsStateAndNext(i, j) ==
    /\ matcherIn[j].isNextState
    /\ [state |-> matcherIn[i], nextState |-> matcherIn[j]] \in Range(matcherOut)

\* C21: two registers of one enumeration type named <P>state and <P>next_state
\* are classified as a state and a next-state register and returned as one pair
\* (state = <P>state, nextState = <P>next_state), for every prefix P.
C21_PrefixedPairs ==
    (pc = "pairs" /\ src # <<>>) =>
        \A i \in DOMAIN matcherIn, j \in DOMAIN matcherIn :
            (PrefixedPair(matcherIn[i].varName, matcherIn[j].varName) /\ OnlyTwoOfType(i, j))
                => PairedAsStateAndNext(i, j)

\* C21, the empty prefix: state and next_state are returned as one pair.
C21_UnprefixedPair ==
    (pc = "pairs" /\ src # <<>>) =>
        \A i \in DOMAIN matcherIn, j \in DOMAIN matcherIn :
            (matcherIn[i].varName = "state" /\ matcherIn[j].varName = "next_state"
             /\ OnlyTwoOfType(i, j))
                => PairedAsStateAndNext(i, j)

\* C21, the fallback: a pair whose names do not match is formed only when every
\* next-state register of the type whose name matches is taken by an earlier pair.
C21_FallbackOnlyWithoutMatch ==
    pc = "pairs" =>
        \A k \in DOMAIN matcherOut :
            (/\ matcherOut[k].nextState # NoRegister
             /\ ~areMatchingStateNames(matcherOut[k].state.varName,
                                       matcherOut[k].nextState.varName))
                => \A r \in Range(matcherIn) :
                      (/\ r.typeName = matcherOut[k].state.typeName
                       /\ r.isNextState
                       /\ areMatchingStateNames(matcherOut[k].state.varName, r.varName))
                          => \E e \in 1..(k - 1) : matcherOut[e].nextState = r

\* the places (pair, role) of the result that hold the register r
PlacesOf(r) ==
    {<<k, "state">> : k \in {e \in DOMAIN matcherOut : matcherOut[e].state = r}}
    \cup {<<k, "nextState">> : k \in {e \in DOMAIN matcherOut : matcherOut[e].nextState = r}}

\* C28: in the result of matchStateRegisterPairs every input register occurs in
\* exactly one pair and one role, every register of the result is an input
\* register, the two registers of a pair have the same typeName, and a
\* next-state register that is nobody's nextState is the state of a pair
\* without nextState.
C28_PairsPartitionRegisters ==
    pc = "pairs" =>
        /\ \A r \in Range(matcherIn) : Cardinality(PlacesOf(r)) = 1
        /\ \A k \in DOMAIN matcherOut :
              /\ matcherOut[k].state \in Range(matcherIn)
              /\ matcherOut[k].nextState \in Range(matcherIn) \cup {NoRegister}
              /\ matcherOut[k].nextState # NoRegister
                    => matcherOut[k].nextState.typeName = matcherOut[k].state.typeName
        /\ \A r \in Range(matcherIn) :
              (r.isNextState /\ \A k \in DOMAIN matcherOut : matcherOut[k].nextState # r)
                  => [state |-> r, nextState |-> NoRegister] \in Range(matcherOut)

\* three registers of one type: a pair formed by the fallback and an orphaned
\* next-state register that became a pair of its own
C28_Witness ==
    /\ pc = "pairs"
    /\ Len(matcherIn) = 3
    /\ \E k \in DOMAIN matcherOut :
          /\ matcherOut[k].nextState # NoRegister
          /\ ~areMatchingStateNames(matcherOut[k].state.varName, matcherOut[k].nextState.varName)
    /\ \E k \in DOMAIN matcherOut :
          matcherOut[k].state.isNextState /\ matcherOut[k].nextState = NoRegister

\* ------------------------------------------------------------------ SpecO: Mealy outputs

Output(signal, value) == Assign(signal, "=", <<value>>)

\* if (a) begin next_state = S; busy = 1'b1; end
MealyIf(cond, to, signal) ==
    If(<<cond>>, <<NextAssign(to), Output(signal, "1'b1")>>, TRUE)

\* the bodies of the case arms, with whether the arm is a begin/end block
MealyArmBodies ==
    {[body |-> <<>>, block |-> FALSE],
     [body |-> <<NextAssign("DONE")>>, block |-> FALSE],
     [body |-> <<If(<<"a">>, <<NextAssign("RUN")>>, FALSE)>>, block |-> FALSE],
     [body |-> <<If(<<"a">>, <<Output("busy", "1'b1")>>, TRUE)>>, block |-> TRUE],
     [body |-> <<If(<<"a">>, <<Output("ready", "1'b1")>>, FALSE),
                 If(<<"b">>, <<NextAssign("RUN")>>, FALSE)>>, block |-> TRUE],
     [body |-> <<IfElse(<<"a">>, <<NextAssign("RUN"), Output("busy", "1'b1")>>, TRUE,
                        <<If(<<"b">>, <<NextAssign("RUN")>>, FALSE)>>, FALSE)>>,
      block |-> TRUE],
     [body |-> <<MealyIf("a", "RUN", "busy"), MealyIf("b", "RUN", "ready")>>, block |-> TRUE]}
    \cup {[body |-> <<MealyIf("a", to, "busy")>>, block |-> b] :
              to \in {"RUN", "DONE"}, b \in BOOLEAN}

\* the arms of a case statement: each state labels at most one arm
MealyArmLists ==
    UNION {{items \in [1..k -> {CaseItem(<<l>>, b.body, b.block) :
                                    l \in Range(XStates), b \in MealyArmBodies}] :
               \A i \in 1..k, j \in 1..k : i # j => items[i].labels # items[j].labels} :
           k \in 1..MaxArms}

InitO ==
    /\ OthersIdle
    /\ pc = "source"
    /\ \E items \in MealyArmLists, d \in BOOLEAN :
          src = [states |-> XStates, stateVarName |-> "state",
                 nextStateVarName |-> "next_state", default |-> d,
                 case |-> Case("state", items), flat |-> FALSE]
    /\ fsm = NoFSM
    /\ warnings = <<>>
    /\ text = <<>>
    /\ opts = NoOpts
    /\ out = <<>>

\* extractOutputsFromCaseStatement and attachOutputsToTransitions on the
\* transitions of the same case statement
AttachOutputs ==
    /\ pc = "extracted"
    /\ \E outputsResult \in {extractOutputsFromCaseStatement(src.case, src.stateVarName,
                                 src.nextStateVarName, src.states)} :
          /\ out' = [out EXCEPT !.transitions =
                        attachOutputsToTransitions(out.transitions,
                                                   outputsResult.mealyOutputsByTransition)]
          /\ fsm' = [fsm EXCEPT !.states =
                        Tuple([i \in 1..Len(src.states) |->
                                 [FSMState(src.states[i]) EXCEPT
                                    !.outputs = MapGet(outputsResult.mooreOutputsByState,
                                                       src.states[i])]])]
    /\ pc' = "attached"
    /\ UNCHANGED <<warnings, text, opts, src>>
    /\ UNCHANGED otherVars

NextO == ExtractTransitions \/ AttachOutputs

SpecO == InitO /\ [][NextO]_vars

\* ------------------------------------------------------------------ claims on SpecO

\* the state assignments and the outputs of one branch of a conditional
BranchMoves(stmts) ==
    SelectSeq(stmts, LAMBDA a : a.kind = "assign" /\ a.target = src.nextStateVarName
                                /\ a.value[1] \in Range(src.states))

BranchOutputs(stmts) ==
    LET outs == SelectSeq(stmts, LAMBDA a :
                    a.kind = "assign" /\ a.target \notin {src.stateVarName, src.nextStateVarName})
    IN  Tuple([i \in 1..Len(outs) |-> FSMOutput(outs[i].target, outs[i].value)])

\* the conditionals of an arm that assign the state variable, in source order,
\* each with its target and the outputs assigned in the same conditional
RECURSIVE MealyBranches(_)
MealyBranches(stmts) ==
    Flatten([i \in 1..Len(stmts) |->
        IF stmts[i].kind # "if" THEN <<>>
        ELSE (IF BranchMoves(stmts[i].then) = <<>> THEN <<>>
              ELSE <<[to |-> BranchMoves(stmts[i].then)[1].value[1],
                      outputs |-> BranchOutputs(stmts[i].then)]>>)
             \o MealyBranches(stmts[i].else)])

\* the transitions that the conditionals of the arm of state s produced
GuardedFrom(s) ==
    SelectSeq(out.transitions, LAMBDA t : t.from = s /\ ~t.isImplicit /\ t.condition # <<>>)

\* the transitions of arm i are those of its conditionals, one each, in order
ArmAsWritten(i) ==
    LET got == GuardedFrom(src.case.items[i].labels[1])
        exp == MealyBranches(src.case.items[i].body)
    IN  Len(got) = Len(exp) /\ \A k \in 1..Len(got) : got[k].to = exp[k].to

\* C22: every transition carries the outputs assigned in the conditional that
\* produced it and no others; a transition produced by no conditional carries none.
C22_OwnOutputsOnly ==
    pc = "attached" =>
        /\ \A i \in DOMAIN src.case.items :
              ArmAsWritten(i) =>
                  \A k \in 1..Len(MealyBranches(src.case.items[i].body)) :
                      GuardedFrom(src.case.items[i].labels[1])[k].outputs
                          = MealyBranches(src.case.items[i].body)[k].outputs
        /\ \A t \in Range(out.transitions) : t.condition = <<>> => t.outputs = <<>>

\* every arm holds at most one conditional, and an arm whose conditional
\* assigns an output is a begin/end block
OneConditionalPerArm ==
    \A i \in DOMAIN src.case.items :
        LET item == src.case.items[i]
        IN  /\ Len(item.body) <= 1
            /\ \A j \in DOMAIN item.body :
                  item.body[j].kind = "if" =>
                      /\ ~item.body[j].hasElse
                      /\ BranchOutputs(item.body[j].then) # <<>> => item.block

\* C22, one conditional per arm: the transition of the conditional carries the
\* outputs assigned in it.
C22_OneConditionalPerArm == OneConditionalPerArm => C22_OwnOutputsOnly

\* ------------------------------------------------------------------ graph searches

\* a search that follows the transitions in both directions
RECURSIVE ReachFromUndirected(_, _, _)
ReachFromUndirected(f, queue, reachable) ==
    IF queue = <<>> THEN reachable
    ELSE LET current == Head(queue)
         IN  IF current \in Range(reachable) THEN ReachFromUndirected(f, Tail(queue), reachable)
             ELSE LET added == reachable \o <<current>>
                      found == SelectSeq(f.transitions, LAMBDA t :
                                  current \in {t.from, t.to})
                  IN  ReachFromUndirected(f,
                          Tail(queue) \o [i \in 1..Len(found) |-> found[i].to]
                                      \o [i \in 1..Len(found) |-> found[i].from], added)

\* findReachableStates: breadth-first from startState, in the order of insertion
RECURSIVE ReachFrom(_, _, _)
ReachFrom(f, queue, reachable) ==
    IF queue = <<>> THEN reachable
    ELSE LET current == Head(queue)
         IN  IF current \in Range(reachable) THEN ReachFrom(f, Tail(queue), reachable)
             ELSE LET added == reachable \o <<current>>
                      found == SelectSeq(f.transitions, LAMBDA t :
                                  t.from = current /\ t.to \notin Range(added))
                  IN  ReachFrom(f, Tail(queue) \o [i \in 1..Len(found) |-> found[i].to], added)

findReachableStates_Undirected(f, startState) ==
    ReachFromUndirected(f, <<startState>>, <<>>)

findReachableStates(f, startState) == ReachFrom(f, <<startState>>, <<>>)

isStronglyConnected(f) ==
    IF f.resetState = NoName THEN FALSE
    ELSE Len(findReachableStates(f, f.resetState)) = Len(f.states)

\* the adjacency list of a state: the targets of its transitions that are not
\* flagged as self-loops; a name that is no state has none
adjacency(f, state) ==
    IF state \notin Range(StateNames(f)) THEN <<>>
    ELSE LET leaving == SelectSeq(f.transitions, LAMBDA t : ~t.isSelfLoop /\ t.from = state)
         IN  Tuple([i \in 1..Len(leaving) |-> leaving[i].to])

\* dfs(state) of findCycles on the search state [visited, cycles], with the
\* path that leads to state; the recursion stack is the set of the path
RECURSIVE dfs(_, _, _, _)
RECURSIVE dfsNeighbors(_, _, _, _)
dfs(f, state, path, search) ==
    dfsNeighbors(f, adjacency(f, state), path \o <<state>>,
                 [search EXCEPT !.visited = @ \cup {state}])

dfsNeighbors(f, neighbors, path, search) ==
    IF neighbors = <<>> THEN search
    ELSE LET neighbor == Head(neighbors)
         IN  IF neighbor \notin search.visited
             THEN dfsNeighbors(f, Tail(neighbors), path, dfs(f, neighbor, path, search))
             ELSE IF neighbor \in Range(path)
             THEN LET cycleStart == CHOOSE i \in 1..Len(path) :
                                       path[i] = neighbor /\ \A j \in 1..(i - 1) : path[j] # neighbor
                  IN  dfsNeighbors(f, Tail(neighbors), path,
                                   [search EXCEPT !.cycles =
                                       @ \o <<SubSeq(path, cycleStart, Len(path)) \o <<neighbor>>>>])
             ELSE dfsNeighbors(f, Tail(neighbors), path, search)

\* the loop that starts a search from each state not visited yet
RECURSIVE dfsFromEach(_, _, _)
dfsFromEach(f, names, search) ==
    IF names = <<>> THEN search
    ELSE dfsFromEach(f, Tail(names),
                     IF Head(names) \in search.visited THEN search
                     ELSE dfs(f, Head(names), <<>>, search))

findCycles(f) == dfsFromEach(f, StateNames(f), [visited |-> {}, cycles |-> <<>>]).cycles

\* ------------------------------------------------------------------ SpecG: graph searches

GraphStateLists == { <<"IDLE", "RUN", "DONE">>, <<"STUCK", "DONE">> }

\* the transitions of the FSMs searched: between the states of a list of three
\* with the isSelfLoop flag as the extractor sets it, and for a list of two
\* also self-loops, free flags and endpoints that are no state
EdgesOver(names) ==
    IF Len(names) = 3
    THEN { t \in TransitionsOver(names) : ~t.isImplicit /\ ~t.isSelfLoop /\ t.from # t.to }
    ELSE { t \in TransitionsOver(names) : ~t.isImplicit } \cup Dangling(names)

InitG ==
    /\ OthersIdle
    /\ pc = "input"
    /\ \E names \in GraphStateLists, k \in 0..MaxEdges :
          \E ts \in [1..k -> EdgesOver(names)], r \in {names[1], names[2], NoName} :
             fsm = HandBuiltFSM(names, ts, r)
    /\ warnings = <<>>
    /\ text = <<>>
    /\ opts = NoOpts
    /\ src = <<>>
    /\ out = <<>>

\* findReachableStates(fsm, fsm.resetState), as isStronglyConnected calls it
FindReachableStates ==
    /\ pc = "reachability"
    /\ fsm.resetState # NoName
    /\ out' = findReachableStates(fsm, fsm.resetState)
    /\ pc' = "reachable"
    /\ UNCHANGED <<fsm, warnings, text, opts, src>>
    /\ UNCHANGED otherVars

FindCycles ==
    /\ pc = "input"
    /\ out' = findCycles(fsm)
    /\ pc' = "cycles"
    /\ UNCHANGED <<fsm, warnings, text, opts, src>>
    /\ UNCHANGED otherVars

NextG == ValidateReachability \/ FindReachableStates \/ FindCycles

SpecG == InitG /\ [][NextG]_vars

\* ------------------------------------------------------------------ claims on SpecG

\* the edges of the graph of findCycles: transitions between states that are
\* not flagged as self-loops
CycleEdge(a, b) ==
    /\ a \in Range(StateNames(fsm))
    /\ \E t \in Range(fsm.transitions) : ~t.isSelfLoop /\ t.from = a /\ t.to = b

\* the simple cycles of the graph: distinct states, each with an edge to the
\* next and the last with an edge to the first
SimpleCycles ==
    LET names == StateNames(fsm)
    IN  { c \in UNION {[1..k -> Range(names)] : k \in 1..Len(names)} :
            /\ \A i \in 1..Len(c), j \in 1..Len(c) : i # j => c[i] # c[j]
            /\ \A i \in 1..Len(c) : CycleEdge(c[i], c[(i % Len(c)) + 1]) }

\* the closed list r is the cycle c, started at one of its states
IsRotation(r, c) ==
    /\ Len(r) = Len(c) + 1
    /\ \E shift \in 0..(Len(c) - 1) :
          \A i \in 1..Len(r) : r[i] = c[((i - 1 + shift) % Len(c)) + 1]

\* C23: findCycles returns every simple cycle of the graph of the transitions
\* that are not self-loops, each up to rotation.
C23_EverySimpleCycle ==
    pc = "cycles" =>
        \A c \in SimpleCycles : \E k \in DOMAIN out : IsRotation(out[k], c)

\* C23, the lists returned: each is a closed path of the graph, its first and
\* last element the same and every consecutive pair an edge.
C23_ClosedPaths ==
    pc = "cycles" =>
        \A k \in DOMAIN out :
            /\ Len(out[k]) >= 2
            /\ out[k][1] = out[k][Len(out[k])]
            /\ \A i \in 1..(Len(out[k]) - 1) : CycleEdge(out[k][i], out[k][i + 1])

\* C23, termination: the search is defined on every FSM.
C23_Terminates == pc = "input" => ENABLED FindCycles

\* the isSelfLoop flag is set exactly on the transitions with from = to
ExactSelfLoopFlags ==
    \A t \in Range(fsm.transitions) : t.isSelfLoop <=> t.from = t.to

\* C29: with a reset state and exact isSelfLoop flags, no state of the
\* unreachable_state warning is in findReachableStates(fsm, fsm.resetState).
C29_FlaggedNotReachable ==
    (pc = "reachable" /\ ExactSelfLoopFlags) =>
        \A w \in Range(WarningsOfType("unreachable_state")) :
            Range(w.states) \cap Range(out) = {}

\* a state is flagged while the search reaches other states from the reset state
C29_Witness ==
    /\ pc = "reachable"
    /\ ExactSelfLoopFlags
    /\ WarningsOfType("unreachable_state") # <<>>
    /\ Len(out) >= 2
    /\ \E t \in Range(fsm.transitions) : t.isSelfLoop

\* ------------------------------------------------------------------ encoding detector

(* A literal is the sequence of its characters.  parseInt results stay far   *)
(* below 2^31, so the 32-bit operators & and ^ are computed on the naturals. *)
Digits == <<"0", "1", "2", "3", "4", "5", "6", "7", "8", "9">>
HexDigits == Digits \o <<"a", "b", "c", "d", "e", "f">>

IsDigit(c) == c \in Range(Digits)

\* the value of a digit in a base, or -1
DigitValue(c, base) ==
    LET lower == CASE c = "A" -> "a" [] c = "B" -> "b" [] c = "C" -> "c" [] c = "D" -> "d"
                   [] c = "E" -> "e" [] c = "F" -> "f" [] OTHER -> c
        at    == {i \in 1..base : HexDigits[i] = lower}
    IN  IF at = {} THEN -1 ELSE (CHOOSE i \in at : TRUE) - 1

\* NaN, the result of parseInt on a string without a leading digit
NaN == -1

\* parseInt(str, base): the value of the longest prefix of digits of the base
RECURSIVE ParseDigits(_, _, _)
ParseDigits(str, base, acc) ==
    IF str = <<>> \/ DigitValue(Head(str), base) < 0 THEN acc
    ELSE ParseDigits(Tail(str), base, acc * base + DigitValue(Head(str), base))

parseInt(str, base) ==
    IF str = <<>> \/ DigitValue(Head(str), base) < 0 THEN NaN ELSE ParseDigits(str, base, 0)

\* the longest run of characters of a class from position i on
RunFrom(str, i, InClass(_)) ==
    LET stop == CHOOSE p \in i..(Len(str) + 1) :
                    /\ (p = Len(str) + 1 \/ ~InClass(str[p]))
                    /\ \A q \in i..(p - 1) : InClass(str[q])
    IN  SubSeq(str, i, stop - 1)

\* the capture of the first match of '<letter>(<class>+) in str, or <<>>
BasedCapture(str, letters, InClass(_)) ==
    LET at == {i \in 1..(Len(str) - 2) :
                  str[i] = "'" /\ str[i + 1] \in letters /\ InClass(str[i + 2])}
    IN  IF at = {} THEN <<>>
        ELSE RunFrom(str, (CHOOSE i \in at : \A j \in at : i <= j) + 2, InClass)

\* the capture of the first match of 'd?(\d+) in str, or <<>>
DecimalCapture(str) ==
    LET Start(i) == IF i + 2 <= Len(str) /\ str[i + 1] \in {"d", "D"} /\ IsDigit(str[i + 2])
                    THEN i + 2
                    ELSE IF i + 1 <= Len(str) /\ IsDigit(str[i + 1]) THEN i + 1 ELSE 0
        at       == {i \in 1..Len(str) : str[i] = "'" /\ Start(i) # 0}
    IN  IF at = {} THEN <<>>
        ELSE RunFrom(str, Start(CHOOSE i \in at : \A j \in at : i <= j), IsDigit)

\* null, the result of parseVerilogNumber on a string that is no number
NoNumber == -2

parseVerilogNumber(str) ==
    LET NoUnderscore(t) == SelectSeq(t, LAMBDA c : c # "_")
        bin == BasedCapture(str, {"b", "B"}, LAMBDA c : c \in {"0", "1", "_"})
        hex == BasedCapture(str, {"h", "H"},
                            LAMBDA c : c = "_" \/ DigitValue(c, 16) >= 0)
        dec == DecimalCapture(str)
    IN  IF bin # <<>> THEN parseInt(NoUnderscore(bin), 2)
        ELSE IF hex # <<>> THEN parseInt(NoUnderscore(hex), 16)
        ELSE IF dec # <<>> THEN parseInt(dec, 10)
        ELSE IF str # <<>> /\ \A i \in 1..Len(str) : IsDigit(str[i]) THEN parseInt(str, 10)
        ELSE NoNumber

\* a & b and a ^ b on naturals; 0 & x is 0 for every x
RECURSIVE BitAnd(_, _)
BitAnd(a, b) ==
    IF a = 0 \/ b = 0 THEN 0
    ELSE (a % 2) * (b % 2) + 2 * BitAnd(a \div 2, b \div 2)

RECURSIVE BitXor(_, _)
BitXor(a, b) ==
    IF a = 0 /\ b = 0 THEN 0
    ELSE ((a + b) % 2) + 2 * BitXor(a \div 2, b \div 2)

\* [...values].sort((a, b) => a - b)
RECURSIVE SortAscending(_)
SortAscending(values) ==
    IF values = <<>> THEN <<>>
    ELSE LET least == CHOOSE i \in 1..Len(values) :
                         \A j \in 1..Len(values) : values[i] <= values[j]
         IN  <<values[least]>>
             \o SortAscending(SubSeq(values, 1, least - 1) \o SubSeq(values, least + 1, Len(values)))

detectEncodingType(enumDef) ==
    LET states    == enumDef.states
        encodings == SelectSeq([i \in 1..Len(states) |-> states[i].encoding],
                               LAMBDA e : e # <<>>)
        parsed    == [i \in 1..Len(encodings) |-> parseVerilogNumber(encodings[i])]
        values    == SelectSeq(parsed, LAMBDA v : v # NoNumber)
        isOneHot  == \A i \in 1..Len(values) :
                        values[i] > 0 /\ BitAnd(values[i], values[i] - 1) = 0
        sorted    == SortAscending(values)
        isGray    == \A i \in 2..Len(sorted) :
                        LET diff == BitXor(sorted[i], sorted[i - 1])
                        IN  BitAnd(diff, diff - 1) = 0
    IN  IF encodings = <<>> THEN "unknown"
        ELSE IF Len(values) # Len(encodings) THEN "unknown"
        ELSE IF isOneHot /\ Len(values) > 1 THEN "onehot"
        ELSE IF isGray /\ Len(sorted) > 1 THEN "gray"
        ELSE "binary"

\* ------------------------------------------------------------------ SpecN: encodings

\* the values written after = in the enumerations, and <<>> for a state without one
Literals ==
    { <<>>,
      <<"2", "'", "b", "0", "0">>, <<"2", "'", "b", "0", "1">>, <<"2", "'", "b", "1", "0">>,
      <<"2", "'", "b", "1", "1">>, <<"3", "'", "b", "1", "0", "0">>,
      <<"4", "'", "b", "0", "0", "_", "1", "0">>, <<"2", "'", "b", "0", "x">>,
      <<"4", "'", "h", "8">>, <<"4", "'", "H", "F">>, <<"2", "'", "d", "3">>, <<"'", "d", "2">>,
      <<"3">>, <<"2", "'", "o", "1">>, <<"W", "I", "D", "T", "H">> }

InitN ==
    /\ OthersIdle
    /\ pc = "enum"
    /\ \E k \in 1..MaxEnumStates :
          \E encodings \in [1..k -> Literals] :
             src = [typeName |-> "state_t",
                    states |-> [i \in 1..k |-> [name |-> XStates[((i - 1) % 3) + 1],
                                                encoding |-> encodings[i]]]]
    /\ fsm = NoFSM
    /\ warnings = <<>>
    /\ text = <<>>
    /\ opts = NoOpts
    /\ out = <<>>

\* encoding: detectEncodingType(enumDef)
DetectEncodingType ==
    /\ pc = "enum"
    /\ out' = detectEncodingType(src)
    /\ pc' = "encoding"
    /\ UNCHANGED <<fsm, warnings, text, opts, src>>
    /\ UNCHANGED otherVars

NextN == DetectEncodingType

SpecN == InitN /\ [][NextN]_vars

\* ------------------------------------------------------------------ claims on SpecN

\* the literals of the enumeration and their values
LiteralsOf(enumDef) ==
    SelectSeq([i \in 1..Len(enumDef.states) |-> enumDef.states[i].encoding], LAMBDA e : e # <<>>)

ValuesOf(enumDef) ==
    [i \in 1..Len(LiteralsOf(enumDef)) |-> parseVerilogNumber(LiteralsOf(enumDef)[i])]

\* the positions of the bits set in a natural number below 2^8
SetBits(v) == {b \in 0..7 : (v \div (2 ^ b)) % 2 = 1}

\* the number of bits in which two values differ
BitsApart(a, b) ==
    Cardinality((SetBits(a) \ SetBits(b)) \cup (SetBits(b) \ SetBits(a)))

\* the classification as the four rules give it, in their order
EncodingByRules(enumDef) ==
    LET values == ValuesOf(enumDef)
        sorted == SortAscending(values)
    IN  IF values = <<>> \/ \E i \in 1..Len(values) : values[i] = NoNumber THEN "unknown"
        ELSE IF Len(values) >= 2 /\ \A i \in 1..Len(values) : Cardinality(SetBits(values[i])) = 1
        THEN "onehot"
        ELSE IF Len(values) >= 2 /\ \A i \in 2..Len(sorted) : BitsApart(sorted[i], sorted[i - 1]) = 1
        THEN "gray"
        ELSE "binary"

\* C24: detectEncodingType returns unknown without literals or with a literal
\* that cannot be parsed, else onehot for two or more values of one set bit
\* each, else gray for two or more values whose neighbours in ascending order
\* differ in exactly one bit, else binary.
C24_EncodingRules ==
    pc = "encoding" => out = EncodingByRules(src)

\* C24, values that are pairwise different: the four rules give the result.
C24_DistinctValues ==
    (\A i \in 1..Len(ValuesOf(src)), j \in 1..Len(ValuesOf(src)) :
         i # j => ValuesOf(src)[i] # ValuesOf(src)[j])
        => C24_EncodingRules

\* ------------------------------------------------------------------ SpecT: parser initialization

(* The module state of tree-sitter-init.ts under the JavaScript event loop:  *)
(* every action is one synchronous stretch of code between two awaits.  A    *)
(* doInit run is [step, epoch, settledIn]: it waits for Parser.init ("init"),*)
(* then, with its parser created, for Language.load ("load"), and ends       *)
(* "fulfilled" or "rejected"; epoch and settledIn are the numbers of resets  *)
(* when it started and when it ended.  The parser created by run k is k, and *)
(* the promise of run k is k.                                                *)

Pending(run) == run.step \in {"init", "load"}

\* the synchronous part of a call of initParser, made by a call of the given kind
CallInitParser(kind) ==
    /\ pc = "loaded"
    /\ Len(calls) < MaxCalls
    /\ IF parserInstance # NoParser
       THEN /\ calls' = Append(calls, [kind |-> kind, epoch |-> resets, got |-> "parser",
                                       id |-> parserInstance,
                                       status |-> IF kind = "initParser" THEN "returned"
                                                  ELSE "awaiting"])
            /\ UNCHANGED <<initPromise, runs>>
       ELSE IF initPromise # NoPromise
       THEN /\ calls' = Append(calls, [kind |-> kind, epoch |-> resets, got |-> "promise",
                                       id |-> initPromise, status |-> "awaiting"])
            /\ UNCHANGED <<initPromise, runs>>
       ELSE /\ runs' = Append(runs, [step |-> "init", epoch |-> resets, settledIn |-> -1])
            /\ initPromise' = Len(runs) + 1
            /\ calls' = Append(calls, [kind |-> kind, epoch |-> resets, got |-> "promise",
                                       id |-> Len(runs) + 1, status |-> "awaiting"])
    /\ UNCHANGED <<pc, fsm, warnings, text, opts, src, out, registerVars, webVars, parserInstance, resets>>

InitParser == CallInitParser("initParser")

\* const parser = await initParser()
ParseSystemVerilog == CallInitParser("parseSystemVerilog")

\* doInit after Parser.init resolved: const parser = new Parser()
DoInitCreate(k) ==
    /\ k \in DOMAIN runs
    /\ runs[k].step = "init"
    /\ runs' = [runs EXCEPT ![k].step = "load"]
    /\ UNCHANGED <<pc, fsm, warnings, text, opts, src, out, registerVars, webVars,
                   parserInstance, initPromise, calls, resets>>

\* a doInit run that clears initPromise when it fails, so that the next call retries
DoInitFail_ClearsPromise(k) ==
    /\ k \in DOMAIN runs
    /\ Pending(runs[k])
    /\ runs' = [runs EXCEPT ![k].step = "rejected", ![k].settledIn = resets]
    /\ initPromise' = NoPromise
    /\ UNCHANGED <<pc, fsm, warnings, text, opts, src, out, registerVars, webVars,
                   parserInstance, calls, resets>>

\* doInit throws: Parser.init or Language.load rejects, or no WASM file is found
DoInitFail(k) ==
    /\ k \in DOMAIN runs
    /\ Pending(runs[k])
    /\ runs' = [runs EXCEPT ![k].step = "rejected", ![k].settledIn = resets]
    /\ UNCHANGED <<pc, fsm, warnings, text, opts, src, out, registerVars, webVars,
                   parserInstance, initPromise, calls, resets>>

\* doInit after Language.load resolved: parserInstance = parser; return parser
DoInitFinish(k) ==
    /\ k \in DOMAIN runs
    /\ runs[k].step = "load"
    /\ runs' = [runs EXCEPT ![k].step = "fulfilled", ![k].settledIn = resets]
    /\ parserInstance' = k
    /\ UNCHANGED <<pc, fsm, warnings, text, opts, src, out, registerVars, webVars,
                   initPromise, calls, resets>>

\* the continuation of a call after its promise settled; parseSystemVerilog
\* goes on with parser.parse(source), which returns a tree or null
Resume(c) ==
    /\ c \in DOMAIN calls
    /\ calls[c].status = "awaiting"
    /\ \/ /\ calls[c].got = "promise"
          /\ runs[calls[c].id].step = "rejected"
          /\ calls' = [calls EXCEPT ![c].status = "rejected"]
       \/ /\ calls[c].got = "parser" \/ runs[calls[c].id].step = "fulfilled"
          /\ \E outcome \in IF calls[c].kind = "initParser" THEN {"returned"}
                            ELSE {"tree", "no tree"} :
                calls' = [calls EXCEPT ![c].status = outcome]
    /\ UNCHANGED <<pc, fsm, warnings, text, opts, src, out, registerVars, webVars,
                   parserInstance, initPromise, runs, resets>>

ResetParser ==
    /\ pc = "loaded"
    /\ resets < MaxResets
    /\ parserInstance' = NoParser
    /\ initPromise' = NoPromise
    /\ resets' = resets + 1
    /\ UNCHANGED <<pc, fsm, warnings, text, opts, src, out, registerVars, webVars, runs, calls>>

InitT ==
    /\ pc = "loaded"
    /\ fsm = NoFSM
    /\ warnings = <<>>
    /\ text = <<>>
    /\ opts = NoOpts
    /\ src = <<>>
    /\ out = <<>>
    /\ RegistersIdle
    /\ ParserIdle
    /\ WebIdle

NextT ==
    \/ InitParser
    \/ ParseSystemVerilog
    \/ \E k \in 1..MaxCalls : DoInitCreate(k) \/ DoInitFail(k) \/ DoInitFinish(k)
    \/ \E c \in 1..MaxCalls : Resume(c)
    \/ ResetParser

SpecT == InitT /\ [][NextT]_vars

\* ------------------------------------------------------------------ claims on SpecT

\* the doInit runs started in epoch e, the time after e calls of resetParser
StartedIn(e) == {k \in DOMAIN runs : runs[k].epoch = e}

\* no initialization of an earlier epoch was in flight when this epoch began
NoLeftover ==
    \A k \in DOMAIN runs :
        runs[k].epoch < resets => ~Pending(runs[k]) /\ runs[k].settledIn < resets

\* what a step that adds a call does, given the initialization of the epoch
OneInitialization ==
    Len(calls') = Len(calls) + 1 =>
        LET c == calls'[Len(calls')]
            mine == StartedIn(resets) IN
        /\ c.got = "promise" => runs'[c.id].epoch = resets
        /\ mine # {} => runs' = runs
        /\ mine = {} /\ NoLeftover =>
               Len(runs') = Len(runs) + 1 /\ c.got = "promise" /\ c.id = Len(runs')
        /\ \A k \in mine :
               NoLeftover =>
                   IF runs[k].step = "fulfilled"
                   THEN c.got = "parser" /\ c.id = k
                   ELSE c.got = "promise" /\ c.id = k

\* a call ends with the error of an initialization exactly when it was given
\* the promise of a failed initialization
SameError ==
    \A c \in DOMAIN calls :
        /\ calls[c].status = "rejected" =>
               calls[c].got = "promise" /\ runs[calls[c].id].step = "rejected"
        /\ calls[c].got = "promise" /\ runs[calls[c].id].step = "rejected" =>
               calls[c].status \in {"awaiting", "rejected"}

ResolvedTo(call) ==
    IF call.got = "parser" THEN call.id
    ELSE IF runs[call.id].step = "fulfilled" THEN call.id
    ELSE NoParser

\* the calls made after a reset get the parser of an initialization started after it
FreshAfterReset ==
    /\ \A c \in DOMAIN calls :
         /\ calls[c].epoch >= 1 /\ ResolvedTo(calls[c]) # NoParser =>
                runs[ResolvedTo(calls[c])].epoch = calls[c].epoch
         /\ calls[c].epoch >= 1 /\ (\A b \in 1..(c - 1) : calls[b].epoch < calls[c].epoch) =>
                calls[c].got = "promise" /\ runs[calls[c].id].epoch = calls[c].epoch
    /\ \A c, d \in DOMAIN calls :
         calls[c].epoch >= 1 /\ calls[c].epoch = calls[d].epoch
         /\ ResolvedTo(calls[c]) # NoParser /\ ResolvedTo(calls[d]) # NoParser =>
             ResolvedTo(calls[c]) = ResolvedTo(calls[d])
    /\ resets >= 1 /\ parserInstance # NoParser => runs[parserInstance].epoch = resets

\* C27: after resetParser the next call of initParser starts a fresh
\* initialization, every call made after the reset resolves to the one parser
\* of that initialization, and the cache never holds the parser of an
\* initialization started before the reset, even when such an initialization
\* was in flight at the reset and completes afterwards.
C27_FreshAfterReset == FreshAfterReset

\* every initialization ended in the epoch it started in
NoStaleInitialization ==
    \A k \in DOMAIN runs :
        IF Pending(runs[k]) THEN runs[k].epoch = resets
        ELSE runs[k].settledIn = runs[k].epoch

\* C27, when no initialization is in flight at a reset: the calls after the
\* reset start a fresh initialization and resolve to its parser.
C27_FreshWithoutStale == NoStaleInitialization => FreshAfterReset

\* C27: calls made after a reset resolved, with no initialization in flight at the reset
C27_FreshWitness ==
    /\ NoStaleInitialization
    /\ \E c, d \in DOMAIN calls :
         c # d /\ calls[c].epoch = 1 /\ calls[d].epoch = 1
         /\ calls[c].status = "returned" /\ calls[d].status = "tree"
         /\ calls[c].got = "promise" /\ calls[d].got = "parser"
    /\ \E k \in DOMAIN runs : runs[k].epoch = 0 /\ runs[k].step = "fulfilled"

\* ------------------------------------------------------------------ SpecW: the web front end

(* The page of fsm-viz.ts under the event loop: an action is a handler, or   *)
(* the stretch of a handler between two awaits.  dom holds the elements the  *)
(* handlers read and write: whether sourceInput has text, whether extractBtn *)
(* is disabled and where its click handler stands, whether the selector      *)
(* group is shown, the number of options of fsmSelector and its value (from  *)
(* 1), the direction option, whether outputSection is shown, the FSM whose   *)
(* Mermaid code is in mermaidOutput, the FSM whose statistics are in         *)
(* statsOutput, and the number of calls of renderOutput by the change        *)
(* handlers that wait for mermaid.render.                                    *)

IsFSM(f) == f # NoSelection /\ f # Undefined

\* renderOutput up to its await: nothing without an FSM, else its Mermaid code is shown
renderOutput(selected, page) ==
    IF IsFSM(selected) THEN [page EXCEPT !.rendered = selected] ELSE page

\* the user types into the source text area
TypeSource ==
    /\ pc = "page"
    /\ ~dom.source
    /\ dom' = [dom EXCEPT !.source = TRUE]
    /\ UNCHANGED <<pc, fsm, warnings, text, opts, src, out, registerVars, parserVars,
                   currentAnalysis, selectedFSM>>

\* the click handler of extractBtn up to await extractFSMs(source)
ExtractClick ==
    /\ pc = "page"
    /\ ~dom.disabled
    /\ dom.extractions < MaxExtracts
    /\ dom' = IF dom.source
              THEN [dom EXCEPT !.disabled = TRUE, !.extracting = "extractFSMs",
                               !.extractions = @ + 1]
              ELSE dom
    /\ UNCHANGED <<pc, fsm, warnings, text, opts, src, out, registerVars, parserVars,
                   currentAnalysis, selectedFSM>>

\* the click handler from the end of extractFSMs to await renderOutput();
\* extractFSMs throws (n = -1) or returns an analysis of n FSMs
ExtractFSMsSettled ==
    /\ dom.extracting = "extractFSMs"
    /\ \E n \in -1..MaxFSMs :
        IF n = -1
        THEN /\ dom' = [dom EXCEPT !.disabled = FALSE, !.extracting = "no"]
             /\ UNCHANGED <<currentAnalysis, selectedFSM>>
        ELSE IF n = 0
        THEN /\ currentAnalysis' = [id |-> dom.extractions, fsms |-> 0]
             /\ dom' = [dom EXCEPT !.disabled = FALSE, !.extracting = "no"]
             /\ UNCHANGED selectedFSM
        ELSE /\ currentAnalysis' = [id |-> dom.extractions, fsms |-> n]
             /\ selectedFSM' = <<dom.extractions, 1>>
             /\ dom' = renderOutput(<<dom.extractions, 1>>,
                           [dom EXCEPT !.selectorShown = n > 1,
                                       !.options = IF n > 1 THEN n ELSE @,
                                       !.value = IF n > 1 THEN 1 ELSE @,
                                       !.extracting = "renderOutput"])
    /\ UNCHANGED <<pc, fsm, warnings, text, opts, src, out, registerVars, parserVars>>

\* renderOutput after mermaid.render, which reads selectedFSM again and throws
\* without one, and the rest of the click handler
ExtractRendered ==
    /\ dom.extracting = "renderOutput"
    /\ dom' = IF IsFSM(selectedFSM)
              THEN [dom EXCEPT !.stats = selectedFSM, !.outputShown = TRUE,
                               !.disabled = FALSE, !.extracting = "no"]
              ELSE [dom EXCEPT !.disabled = FALSE, !.extracting = "no"]
    /\ UNCHANGED <<pc, fsm, warnings, text, opts, src, out, registerVars, parserVars,
                   currentAnalysis, selectedFSM>>

\* the change handler of fsmSelector, the user having chosen option i
SelectorChange(i) ==
    /\ pc = "page"
    /\ dom.selectorShown
    /\ i \in 1..dom.options
    /\ i # dom.value
    /\ dom.renders < MaxRenders
    /\ IF currentAnalysis # NoAnalysis
       THEN \E f \in {IF i <= currentAnalysis.fsms THEN <<currentAnalysis.id, i>>
                      ELSE Undefined} :
               /\ selectedFSM' = f
               /\ dom' = renderOutput(f, [dom EXCEPT !.value = i,
                                              !.renders = IF IsFSM(f) THEN @ + 1 ELSE @])
       ELSE /\ dom' = [dom EXCEPT !.value = i]
            /\ UNCHANGED selectedFSM
    /\ UNCHANGED <<pc, fsm, warnings, text, opts, src, out, registerVars, parserVars,
                   currentAnalysis>>

\* the change handler of an option: renderOutput
OptionChange ==
    /\ pc = "page"
    /\ dom.renders < MaxRenders
    /\ dom' = renderOutput(selectedFSM,
                  [dom EXCEPT !.direction = IF @ = "TB" THEN "LR" ELSE "TB",
                              !.renders = IF IsFSM(selectedFSM) THEN @ + 1 ELSE @])
    /\ UNCHANGED <<pc, fsm, warnings, text, opts, src, out, registerVars, parserVars,
                   currentAnalysis, selectedFSM>>

\* renderOutput of a change handler after mermaid.render
RenderContinue ==
    /\ dom.renders > 0
    /\ dom' = IF IsFSM(selectedFSM)
              THEN [dom EXCEPT !.renders = @ - 1, !.stats = selectedFSM]
              ELSE [dom EXCEPT !.renders = @ - 1]
    /\ UNCHANGED <<pc, fsm, warnings, text, opts, src, out, registerVars, parserVars,
                   currentAnalysis, selectedFSM>>

\* the click handler of resetBtn
ResetClick ==
    /\ pc = "page"
    /\ currentAnalysis' = NoAnalysis
    /\ selectedFSM' = NoSelection
    /\ dom' = [dom EXCEPT !.source = FALSE, !.outputShown = FALSE, !.selectorShown = FALSE]
    /\ UNCHANGED <<pc, fsm, warnings, text, opts, src, out, registerVars, parserVars>>

InitW ==
    /\ pc = "page"
    /\ fsm = NoFSM
    /\ warnings = <<>>
    /\ text = <<>>
    /\ opts = NoOpts
    /\ src = <<>>
    /\ out = <<>>
    /\ RegistersIdle
    /\ ParserIdle
    /\ WebIdle

NextW ==
    \/ TypeSource
    \/ ExtractClick
    \/ ExtractFSMsSettled
    \/ ExtractRendered
    \/ \E i \in 1..MaxFSMs : SelectorChange(i)
    \/ OptionChange
    \/ RenderContinue
    \/ ResetClick

SpecW == InitW /\ [][NextW]_vars

\* ------------------------------------------------------------------ claims on SpecW

\* f is one of analysis.fsms
BelongsTo(f, analysis) ==
    analysis # NoAnalysis /\ f[1] = analysis.id /\ f[2] \in 1..analysis.fsms

\* C30: after any sequence of Extract clicks (successful, yielding no FSM,
\* or failing), selector changes, option changes and Reset clicks, a
\* selectedFSM that is not null is one of currentAnalysis.fsms, the only
\* FSMs renderOutput is given.
C30_SelectedBelongs ==
    selectedFSM # NoSelection => BelongsTo(selectedFSM, currentAnalysis)

\* C30, while no extraction has replaced the analysis by one without FSMs:
\* selectedFSM is null or one of currentAnalysis.fsms.
C30_SelectedOfNonEmptyAnalysis ==
    currentAnalysis = NoAnalysis \/ currentAnalysis.fsms > 0 =>
        (selectedFSM # NoSelection => BelongsTo(selectedFSM, currentAnalysis))

\* C30: the second FSM of a later analysis is selected through the selector
C30_SelectedWitness ==
    /\ currentAnalysis.id >= 2
    /\ selectedFSM = <<currentAnalysis.id, 2>>
    /\ dom.rendered = selectedFSM

====
